---- MODULE Spec2Model ----
(***************************************************************************)
(* Model of the CV extraction pipeline of EXTRACTOR-PDF-CONTENT:           *)
(*   services/ai_extractor_improved.py  (AIExtractorImproved)              *)
(*                                                                         *)
(* A text is a sequence of lexemes.  A lexeme is a run of characters that  *)
(* every pattern of the extractor treats as a unit: one whitespace or      *)
(* control character, one punctuation character, or one maximal run of     *)
(* word characters (\w+).  The tables below give, for every lexeme, what   *)
(* the character classes of the source say about it (its length, its      *)
(* lower-case form, whether it is \s, \w, \d ...).  The patterns of the    *)
(* source are then matched over lexemes, with the same priorities          *)
(* (leftmost match, greedy repetition, first pattern of a list wins).      *)
(***************************************************************************)
EXTENDS Integers, Sequences, FiniteSets, TLC

VARIABLES
    text,        \* the argument of the call (a sequence of lexemes)
    fault,       \* the routine inside which an exception is raised, or "none"
    possessive,  \* TRUE iff the runtime's re compiles 'c++' (Python >= 3.11)
    pc,          \* "ready" | "cleaned" | "recleaned" | "returned" | "raised"
    cleaned,     \* what _clean_text_improved returned
    recleaned,   \* what _clean_text_improved returned when given `cleaned`
    cv_data,     \* the mapping extract_cv_information returned, or NoData
    patterns,    \* the keys of self.patterns of the shared extractor (main.py line 51)
    handlers,    \* the requests of the API in progress, one record per handler
    outputs,     \* the files of the outputs directory: name -> stored mapping
    uploads,     \* the entries of the uploads directory: path -> file or directory
    cleanup      \* the last call of FileHandler.cleanup_old_files, or NoCleanup

vars == <<text, fault, possessive, pc, cleaned, recleaned, cv_data,
          patterns, handlers, outputs, uploads, cleanup>>

NoData == [none |-> TRUE]

(***************************************************************************)
(* The state of the API process (main.py lines 42-52) before any request.  *)
(***************************************************************************)
\* lines 17-31: the keys of the pattern table
PatternNames ==
    { "email", "phone", "linkedin", "github", "website", "address", "date",
      "years_experience", "skills", "education", "languages", "certifications",
      "hobbies" }

MaxHandlers == 2    \* most requests in progress at once

Handlers == 1..MaxHandlers

NoFiles == [name \in {} |-> NoData]

IdleHandler ==
    [ pc |-> "idle", endpoint |-> "", path |-> "", text |-> <<>>, cleaned |-> <<>>,
      cv_info |-> NoData, status |-> 0, output_file |-> "", output_path |-> <<>>,
      uploaded |-> <<>> ]

\* The files a request can name, with what PyPDF2 makes of them and their
\* age in hours.
Files ==
    { [ path |-> "uploads/missing.pdf", exists |-> FALSE, suffix |-> ".pdf",
        parses |-> FALSE, pages |-> <<>>, age |-> 0 ],
      [ path |-> "uploads/notes.txt", exists |-> TRUE, suffix |-> ".txt",
        parses |-> FALSE, pages |-> <<>>, age |-> 30 ],
      [ path |-> "uploads/scan.pdf", exists |-> TRUE, suffix |-> ".pdf",
        parses |-> TRUE, pages |-> << <<>>, <<" ">> >>, age |-> 24 ],
      [ path |-> "uploads/jean.pdf", exists |-> TRUE, suffix |-> ".pdf",
        parses |-> TRUE,
        pages |-> << <<"\f", "Jean", " ", " ", "Dupont", " ">>,
                     <<"\n", "\n", "jean", "@", "example", ".", "com">> >>,
        age |-> 1 ],
      [ path |-> "uploads/skills.pdf", exists |-> TRUE, suffix |-> ".pdf",
        parses |-> TRUE,
        pages |-> << <<"Skills", ":", " ", "Python", ",", " ", "SQL", " ">> >>,
        age |-> 48 ] }

FileAt(path) == CHOOSE f \in Files : f.path = path

\* A regular file of the uploads directory.
FileEntry(f) ==
    [ kind |-> "file", suffix |-> f.suffix, parses |-> f.parses, pages |-> f.pages,
      age |-> f.age, inside |-> <<>> ]

\* The uploads directory when the service starts.
StoredUploads == [p \in {f.path : f \in {g \in Files : g.exists}} |-> FileEntry(FileAt(p))]

NoCleanup == [ran |-> FALSE, max_age_hours |-> 0, returned |-> 0]

ServiceIdle ==
    /\ patterns = PatternNames
    /\ handlers = [h \in Handlers |-> IdleHandler]
    /\ outputs = NoFiles
    /\ uploads = StoredUploads
    /\ cleanup = NoCleanup

(***************************************************************************)
(* Bounds of the model.                                                    *)
(***************************************************************************)
MaxRawLen == 6      \* longest raw character string given to the normalizer

(***************************************************************************)
(* Characters.                                                             *)
(***************************************************************************)
\* [\x00-\x08\x0B\x0C\x0E-\x1F\x7F]: "\f" (0x0C) stands for the class.
ControlChars == {"\f"}

\* What \s and str.strip() call whitespace; 0x0C is whitespace as well.
Whitespace == {" ", "\n", "\t", "\r", "\f"}

IsControl(c) == c \in ControlChars

IsSpace(c) == c \in Whitespace

(***************************************************************************)
(* Sequence helpers standing for Python's str methods.                     *)
(***************************************************************************)
Max(S) == CHOOSE x \in S : \A y \in S : y <= x

Min(S) == CHOOSE x \in S : \A y \in S : x <= y

\* s[a:b] with 1-based inclusive bounds; empty when b < a.
Slice(s, a, b) == IF b < a THEN <<>> ELSE SubSeq(s, a, b)

\* str.strip()
Strip(s) ==
    LET idx == {i \in 1..Len(s) : ~IsSpace(s[i])}
    IN  IF idx = {} THEN <<>> ELSE Slice(s, Min(idx), Max(idx))

\* re.split(r'[...]', s) for a class of one-character separators, and
\* str.split(sep): always at least one piece.
RECURSIVE SplitOn(_, _)
SplitOn(s, seps) ==
    LET idx == {i \in 1..Len(s) : s[i] \in seps}
    IN  IF idx = {} THEN <<s>>
        ELSE <<Slice(s, 1, Min(idx) - 1)>> \o SplitOn(Slice(s, Min(idx) + 1, Len(s)), seps)

Split(s, sep) == SplitOn(s, {sep})

\* sep.join(pieces)
RECURSIVE Join(_, _)
Join(pieces, sep) ==
    IF pieces = <<>> THEN <<>>
    ELSE IF Len(pieces) = 1 THEN pieces[1]
    ELSE pieces[1] \o <<sep>> \o Join(Tail(pieces), sep)

\* [f(x) for x in xs]
RECURSIVE MapStrip(_)
MapStrip(xs) ==
    IF xs = <<>> THEN <<>> ELSE <<Strip(Head(xs))>> \o MapStrip(Tail(xs))

NonEmpty(x) == x # <<>>

(***************************************************************************)
(* _clean_text_improved, lines 71-101.                                     *)
(***************************************************************************)
\* line 78 leaving every character in place
RemoveControlKeepAllMutant(s) == s

\* line 78: re.sub(r'[\x00-\x08\x0B\x0C\x0E-\x1F\x7F]', '', text)
RemoveControl(s) == SelectSeq(s, LAMBDA c : ~IsControl(c))

RECURSIVE FlattenRange(_, _, _)
FlattenRange(pieces, a, b) ==
    IF a > b THEN <<>>
    ELSE IF a = b THEN pieces[a]
    ELSE FlattenRange(pieces, a, (a + b) \div 2)
             \o FlattenRange(pieces, (a + b) \div 2 + 1, b)

\* ''.join(pieces)
Flatten(pieces) == FlattenRange(pieces, 1, Len(pieces))

\* line 81: re.sub(r' {2,}', ' ', text): of a run of spaces the first stays.
CollapseSpaces(s) ==
    Flatten([i \in DOMAIN s |->
                IF s[i] = " " /\ i > 1 /\ s[i - 1] = " " THEN <<>> ELSE <<s[i]>>])

\* line 84: r'\n\s*\n\s*\n+' matched at i.  Greedy: the first \s* stops before
\* the last "\n" it can leave to the rest (one that still has a "\n" after it
\* inside the same whitespace run); \s*\n+ then runs to the last "\n" of the run.
AllSpace(s, a, b) == \A k \in a..b : IsSpace(s[k])

NewlinesAfter(s, i) ==
    {j \in (i + 1)..Len(s) : s[j] = "\n" /\ AllSpace(s, i + 1, j - 1)}

\* 0 when the pattern does not match at i, else the index of the match's last character.
BlankRunEnd(s, i) ==
    IF s[i] # "\n" THEN 0
    ELSE LET second == {j \in NewlinesAfter(s, i) : NewlinesAfter(s, j) # {}}
         IN  IF second = {} THEN 0
             ELSE Max(NewlinesAfter(s, Max(second)))

\* Position j lies inside a match that began before it (matches do not overlap).
InBlankRun(s, j) == \E i \in 1..(j - 1) : s[i] = "\n" /\ BlankRunEnd(s, i) >= j

CollapseBlankLines(s) ==
    Flatten([i \in DOMAIN s |->
                IF InBlankRun(s, i) THEN <<>>
                ELSE IF BlankRunEnd(s, i) # 0 THEN <<"\n", "\n">>
                ELSE <<s[i]>>])

\* lines 87-92 without the test of line 91
CleanedLinesKeepEmptyMutant(s) == MapStrip(Split(s, "\n"))

\* lines 87-92: strip every line, keep the non-empty ones.
CleanedLines(s) == SelectSeq(MapStrip(Split(s, "\n")), NonEmpty)

\* The try block, lines 76-97, in the order of the source.
CleanStepsSpacesFirstMutant(s) ==
    Strip(Join(CleanedLines(CollapseBlankLines(RemoveControl(CollapseSpaces(s)))), "\n"))

CleanSteps(s) ==
    Strip(Join(CleanedLines(CollapseBlankLines(CollapseSpaces(RemoveControl(s)))), "\n"))

\* `if not text: return ""`, then the try block.
clean_text_improved(s) == IF s = <<>> THEN <<>> ELSE CleanSteps(s)

(***************************************************************************)
(* The normalizer applied to raw character strings, then to its own        *)
(* output.                                                                 *)
(***************************************************************************)
RawChars == {"a", " ", "\n", "\t", "\f"}

RECURSIVE SeqsUpTo(_, _)
SeqsUpTo(S, n) ==
    IF n = 0 THEN {<<>>}
    ELSE LET shorter == SeqsUpTo(S, n - 1)
         IN  shorter \cup {Append(s, c) : s \in shorter, c \in S}

RawTexts == SeqsUpTo(RawChars, MaxRawLen)

InitClean ==
    /\ text \in RawTexts
    /\ fault = "none"
    /\ possessive = TRUE
    /\ pc = "ready"
    /\ cleaned = <<>>
    /\ recleaned = <<>>
    /\ cv_data = NoData
    /\ ServiceIdle

CleanOnce ==
    /\ pc = "ready"
    /\ cleaned' = clean_text_improved(text)
    /\ pc' = "cleaned"
    /\ UNCHANGED <<text, fault, possessive, recleaned, cv_data, patterns, handlers, outputs, uploads, cleanup>>

CleanAgain ==
    /\ pc = "cleaned"
    /\ recleaned' = clean_text_improved(cleaned)
    /\ pc' = "recleaned"
    /\ UNCHANGED <<text, fault, possessive, cleaned, cv_data, patterns, handlers, outputs, uploads, cleanup>>

NextClean == CleanOnce \/ CleanAgain

SpecClean == InitClean /\ [][NextClean]_vars

(***************************************************************************)
(* C1: normalising a normalised text changes nothing:                      *)
(* normalize(normalize(x)) = normalize(x) for every raw text x.            *)
(***************************************************************************)
C1_Idempotent == pc = "recleaned" => recleaned = cleaned

\* A text with control characters, doubled spaces and blank lines was
\* normalised twice, and the first pass did change it.
C1_Witness ==
    /\ pc = "recleaned"
    /\ cleaned # text
    /\ cleaned # <<>>
    /\ \E i \in 1..Len(text) : IsControl(text[i])
    /\ \E i \in 1..(Len(text) - 1) : text[i] = " " /\ text[i + 1] = " "

(***************************************************************************)
(* The lexicon: every word lexeme (a maximal run of \w) a text of the     *)
(* model can hold, by its shape:                                           *)
(*   CapWords    [A-Z][a-z]+        UpperWords  [A-Z]{3,}                  *)
(*   LowerWords  [a-z]+             DigitWords  [0-9]+                     *)
(* with its lower-case form (str.lower, re.IGNORECASE), its length in      *)
(* characters (len) and, for a capitalised word, its first letter (pattern *)
(* 2 of _extract_personal_info can end a name after the first letter of a  *)
(* word).  No lexeme of the lexicon holds a keyword of the source as a     *)
(* proper part, so a keyword is found in a text exactly where a lexeme     *)
(* equals it.                                                              *)
(***************************************************************************)
CapWords ==
    { "Jean", "Dupont", "Contact", "Skills", "Languages", "Hobbies",
      "Education", "Bachelor", "Science", "Python", "Java", "French",
      "Spanish", "English", "Native", "Fluent", "Sing", "Music", "Chess",
      "Developer", "Acme", "Douala", "Phone",
      "Yassa", "Address", "City", "Summary", "Profile" }

UpperWords == { "PYTHON", "SQL", "ENSPD" }

LowerWords ==
    { "python", "java", "sql", "piano", "of", "jean", "example", "com", "c",
      "linkedin", "github", "www", "https", "in" }

DigitWords ==
    { "2019", "237", "699112233", "237699112233", "33612345678",
      "0612345678" }

\* word.lower(), for the words that have capitals
Folded ==
    << <<"Jean", "jean">>, <<"Dupont", "dupont">>,
       <<"Contact", "contact">>, <<"Skills", "skills">>,
       <<"Languages", "languages">>, <<"Hobbies", "hobbies">>,
       <<"Education", "education">>, <<"Bachelor", "bachelor">>,
       <<"Science", "science">>, <<"Python", "python">>,
       <<"Java", "java">>, <<"French", "french">>,
       <<"Spanish", "spanish">>, <<"English", "english">>,
       <<"Native", "native">>, <<"Fluent", "fluent">>, <<"Sing", "sing">>,
       <<"Music", "music">>, <<"Chess", "chess">>,
       <<"Developer", "developer">>, <<"Acme", "acme">>,
       <<"Douala", "douala">>, <<"PYTHON", "python">>, <<"SQL", "sql">>,
       <<"ENSPD", "enspd">>, <<"Phone", "phone">>,
       <<"Yassa", "yassa">>, <<"Address", "address">>, <<"City", "city">>,
       <<"Summary", "summary">>, <<"Profile", "profile">> >>

\* word[0], for the capitalised words
Initials ==
    << <<"Jean", "J">>, <<"Dupont", "D">>, <<"Contact", "C">>,
       <<"Skills", "S">>, <<"Languages", "L">>, <<"Hobbies", "H">>,
       <<"Education", "E">>, <<"Bachelor", "B">>, <<"Science", "S">>,
       <<"Python", "P">>, <<"Java", "J">>, <<"French", "F">>,
       <<"Spanish", "S">>, <<"English", "E">>, <<"Native", "N">>,
       <<"Fluent", "F">>, <<"Sing", "S">>, <<"Music", "M">>,
       <<"Chess", "C">>, <<"Developer", "D">>, <<"Acme", "A">>,
       <<"Douala", "D">>, <<"Phone", "P">>,
       <<"Yassa", "Y">>, <<"Address", "A">>, <<"City", "C">>,
       <<"Summary", "S">>, <<"Profile", "P">> >>

\* WordsOfLen[n]: the words of n characters
WordsOfLen ==
    << {"c"}, {"of", "in"}, {"SQL", "sql", "com", "237", "www"},
       {"Jean", "Java", "Sing", "Acme", "java", "jean", "2019", "City"},
       {"Music", "Chess", "piano", "ENSPD", "Phone", "https", "Yassa"},
       {"Dupont", "Skills", "Python", "French", "Native", "Fluent", "Douala", "PYTHON", "python",
        "github"},
       {"Contact", "Hobbies", "Science", "Spanish", "English", "example", "Address",
        "Summary", "Profile"},
       {"Bachelor", "linkedin"}, {"Languages", "Education", "Developer", "699112233"},
       {"0612345678"}, {"33612345678"}, {"237699112233"} >>

\* The second component of the pair of `pairs` whose first component is c,
\* or `other` when there is none.
Lookup(c, pairs, other) ==
    IF \E i \in DOMAIN pairs : pairs[i][1] = c
    THEN pairs[CHOOSE i \in DOMAIN pairs : pairs[i][1] = c][2]
    ELSE other

\* The index of the set of `classes` that holds c, or `other`.
ClassOf(c, classes, other) ==
    IF \E n \in DOMAIN classes : c \in classes[n]
    THEN CHOOSE n \in DOMAIN classes : c \in classes[n]
    ELSE other

\* \w: a lexeme made of word characters.
IsWord(c) == c \in CapWords \/ c \in UpperWords \/ c \in LowerWords \/ c \in DigitWords

\* str.lower() of one lexeme; punctuation, whitespace and digits have no case.
LowerOf == [w \in CapWords \cup UpperWords |-> Lookup(w, Folded, w)]

Lower(c) == IF c \in DOMAIN LowerOf THEN LowerOf[c] ELSE c

\* len() of one lexeme: punctuation, whitespace and control are one character.
LenOf ==
    [w \in CapWords \cup UpperWords \cup LowerWords \cup DigitWords |->
        ClassOf(w, WordsOfLen, 1)]

LexLen(c) == IF c \in DOMAIN LenOf THEN LenOf[c] ELSE 1

InitialOf(c) == Lookup(c, Initials, "")

\* len(s)
RECURSIVE StrLen(_)
StrLen(s) ==
    IF s = <<>> THEN 0
    ELSE IF Len(s) = 1 THEN LexLen(s[1])
    ELSE StrLen(SubSeq(s, 1, Len(s) \div 2)) + StrLen(SubSeq(s, Len(s) \div 2 + 1, Len(s)))

\* s.lower()
LowerStr(s) == [i \in DOMAIN s |-> Lower(s[i])]

\* x in xs, for a list xs
InList(x, xs) == \E i \in DOMAIN xs : xs[i] = x

(***************************************************************************)
(* Pattern matching over lexemes.                                          *)
(***************************************************************************)
\* \b between positions i-1 and i of s: exactly one side is a word character.
BoundaryBefore(s, i) ==
    LET left  == i > 1 /\ i - 1 <= Len(s) /\ IsWord(s[i - 1])
        right == i >= 1 /\ i <= Len(s) /\ IsWord(s[i])
    IN  left # right

\* The literal kw (a sequence of lower-case lexemes) stands at position i of s,
\* compared as re.IGNORECASE compares.
LiteralAt(s, i, kw) ==
    /\ i >= 1
    /\ i + Len(kw) - 1 <= Len(s)
    /\ \A k \in 1..Len(kw) : Lower(s[i + k - 1]) = kw[k]

\* (?:A|B|...) for a set of literals: the positions right after a label at i.
LabelEnds(s, i, labels) == {i + Len(kw) : kw \in {l \in labels : LiteralAt(s, i, l)}}

NoMatch == [found |-> FALSE, first |-> 0, last |-> 0, group |-> <<>>]

\* A match from lexeme `first` to lexeme `last` of s.
Span(s, first, last) ==
    [found |-> TRUE, first |-> first, last |-> last, group |-> Slice(s, first, last)]

\* The least (greatest) index of a set of indexes, 0 for none.
Least(S) == IF S = {} THEN 0 ELSE Min(S)

Greatest(S) == IF S = {} THEN 0 ELSE Max(S)

\* The match that starts at the least of `starts` and ends at EndOf of it.
SpanFrom(s, i, EndOf(_)) == IF i = 0 THEN NoMatch ELSE Span(s, i, EndOf(i))

FirstSpan(s, starts, EndOf(_)) == SpanFrom(s, Least(starts), EndOf)

\* The run of lexemes of class In that starts at e: its last index (e - 1 if none).
RunEnd(s, e, In(_)) == Least({k \in e..(Len(s) + 1) : k = Len(s) + 1 \/ ~In(s[k])}) - 1

InLabelGap(c) == c = ":" \/ IsSpace(c)

NotDotNewline(c) == c # "." /\ c # "\n"

\* LABEL[:\s]*(CLASS+) tried with the label ending right before p.  [:\s]* is
\* greedy and gives back, one character at a time, until CLASS+ can start.
CaptureFrom(s, e, InGroup(_)) ==
    IF e = 0 THEN NoMatch ELSE Span(s, e, RunEnd(s, e, InGroup))

CaptureAfter(s, p, InGroup(_)) ==
    CaptureFrom(s, Greatest({e \in p..(RunEnd(s, p, InLabelGap) + 1) :
                                e <= Len(s) /\ InGroup(s[e])}),
                InGroup)

\* re.search(r'(?:LABELS)[:\s]*(CLASS+)', s, re.IGNORECASE): the leftmost
\* position where the whole pattern matches.
LabelEndAt(s, i, labels, InGroup(_)) ==
    Greatest({q \in LabelEnds(s, i, labels) : CaptureAfter(s, q, InGroup).found})

SearchLabeledAt(s, i, labels, InGroup(_)) ==
    IF i = 0 THEN NoMatch
    ELSE CaptureAfter(s, LabelEndAt(s, i, labels, InGroup), InGroup)

SearchLabeled(s, labels, InGroup(_)) ==
    SearchLabeledAt(s, Least({i \in 1..Len(s) : LabelEndAt(s, i, labels, InGroup) # 0}),
                    labels, InGroup)

\* [x.strip() for x in re.split(r'[,;]', group) if x.strip()]
SplitItems(group) == SelectSeq(MapStrip(SplitOn(group, {",", ";"})), NonEmpty)

(***************************************************************************)
(* self.patterns, lines 17-31 (the labels of the section patterns).        *)
(***************************************************************************)
SkillsLabels ==
    { <<"compétence">>, <<"compétences">>, <<"skill">>, <<"skills">>,
      <<"technologie">>, <<"technologies">>, <<"outil">>, <<"outils">>,
      <<"tool">>, <<"tools">> }

LanguagesLabels == { <<"langue">>, <<"langues">>, <<"language">>, <<"languages">> }

CertificationsLabels ==
    { <<"certification">>, <<"certifications">>, <<"certificat">>, <<"certificats">>,
      <<"certificate">>, <<"certificates">> }

HobbiesLabels ==
    { <<"hobbie">>, <<"hobbies">>,
      <<"centre", " ", "d", "'", "intérêt">>, <<"centres", " ", "d", "'", "intérêt">>,
      <<"interest">>, <<"interests">> }

(***************************************************************************)
(* re.search(rf'\b{keyword}\b', text, re.IGNORECASE), lines 365, 391, 470. *)
(* A keyword is written as its lexemes.  Interpolated into the pattern,    *)
(* '.' matches any one character but a newline, and 'c++' is `c` under a   *)
(* possessive `++` (one or more c, Python >= 3.11; a pattern error before).*)
(***************************************************************************)
KeywordPattern(kw) == IF kw = <<"c", "+", "+">> THEN <<"c">> ELSE kw

PatternLexemeAt(c, k) ==
    IF k = "." THEN LexLen(c) = 1 /\ c # "\n" ELSE Lower(c) = Lower(k)

PatternAt(s, i, pat) ==
    /\ i + Len(pat) - 1 <= Len(s)
    /\ \A k \in 1..Len(pat) : PatternLexemeAt(s[i + k - 1], pat[k])

KeywordFound(s, kw) ==
    \E i \in 1..Len(s) :
        /\ PatternAt(s, i, KeywordPattern(kw))
        /\ BoundaryBefore(s, i)
        /\ BoundaryBefore(s, i + Len(KeywordPattern(kw)))

\* for keyword in kws: if re.search(...): if keyword not in acc: acc.append(keyword)
RECURSIVE AppendFoundNoCheckMutant(_, _, _, _)
AppendFoundNoCheckMutant(acc, kws, i, s) ==
    IF i > Len(kws) THEN acc
    ELSE AppendFoundNoCheckMutant(
             IF KeywordFound(s, kws[i]) THEN Append(acc, kws[i]) ELSE acc,
             kws, i + 1, s)

RECURSIVE AppendFound(_, _, _, _)
AppendFound(acc, kws, i, s) ==
    IF i > Len(kws) THEN acc
    ELSE AppendFound(
             IF KeywordFound(s, kws[i]) /\ ~InList(kws[i], acc)
             THEN Append(acc, kws[i]) ELSE acc,
             kws, i + 1, s)

\* for x in items: if x not in acc: acc.append(x)
RECURSIVE AppendNewNoCheckMutant(_, _)
AppendNewNoCheckMutant(acc, items) ==
    IF items = <<>> THEN acc
    ELSE AppendNewNoCheckMutant(Append(acc, Head(items)), Tail(items))

RECURSIVE AppendNew(_, _)
AppendNew(acc, items) ==
    IF items = <<>> THEN acc
    ELSE AppendNew(IF InList(Head(items), acc) THEN acc ELSE Append(acc, Head(items)),
                   Tail(items))

TakeAllMutant(xs, n) == xs

\* xs[:n]
Take(xs, n) == Slice(xs, 1, IF Len(xs) < n THEN Len(xs) ELSE n)

(***************************************************************************)
(* _extract_skills, lines 343-380.                                         *)
(***************************************************************************)
technical_keywords ==
    << <<"python">>, <<"java">>, <<"javascript">>, <<"react">>, <<"angular">>,
       <<"vue">>, <<"node", ".", "js">>, <<"sql">>, <<"mongodb">>, <<"docker">>,
       <<"kubernetes">>, <<"aws">>, <<"azure">>, <<"git">>, <<"html">>, <<"css">>,
       <<"typescript">>, <<"php">>, <<"c", "#">>, <<"c", "+", "+">>, <<"go">>,
       <<"rust">>, <<"laravel">>, <<"django">>, <<"flask">>, <<"unity">>,
       <<"figma">>, <<"adobe", " ", "xd">>, <<"illustrator">>, <<"linux">>,
       <<"wpf">>, <<"winform">>, <<"huawei", " ", "cloud">> >>

SkillsCap == 20

\* line 373: skill and len(skill) > 1 and not re.search(r'[^\w\s\-]', skill)
KeepSkill(skill) ==
    /\ skill # <<>>
    /\ StrLen(skill) > 1
    /\ \A i \in DOMAIN skill : IsWord(skill[i]) \/ IsSpace(skill[i]) \/ skill[i] = "-"

\* lines 349-353: the tokens of the labelled section
ListedSkills(s) ==
    LET m == SearchLabeled(s, SkillsLabels, NotDotNewline)
    IN  IF m.found THEN SplitItems(m.group) ELSE <<>>

\* lines 346-376, no exception raised
SkillsOf(s) ==
    LET skills == AppendFound(ListedSkills(s), technical_keywords, 1, s)
    IN  Take(SelectSeq(MapStrip(skills), KeepSkill), SkillsCap)

\* The pattern of 'c++' is compiled whatever the text holds: where `++` is
\* not a quantifier re.error is raised, caught at line 378, and [] returned.
extract_skills(s, raises, poss) ==
    IF raises \/ ~poss THEN <<>> ELSE SkillsOf(s)

(***************************************************************************)
(* _extract_languages, lines 382-408.                                      *)
(***************************************************************************)
language_keywords == << <<"French">>, <<"English">>, <<"Native">>, <<"Fluent">> >>

ListedLanguages(s) ==
    LET m == SearchLabeled(s, LanguagesLabels, NotDotNewline)
    IN  IF m.found THEN SplitItems(m.group) ELSE <<>>

LanguagesOf(s) == AppendNew(AppendFound(<<>>, language_keywords, 1, s), ListedLanguages(s))

extract_languages(s, raises) == IF raises THEN <<>> ELSE LanguagesOf(s)

(***************************************************************************)
(* _extract_certifications, lines 410-425.                                 *)
(***************************************************************************)
CertificationsOf(s) ==
    LET m == SearchLabeled(s, CertificationsLabels, NotDotNewline)
    IN  IF m.found THEN SplitItems(m.group) ELSE <<>>

extract_certifications(s, raises) == IF raises THEN <<>> ELSE CertificationsOf(s)

(***************************************************************************)
(* _extract_hobbies, lines 455-478.                                        *)
(***************************************************************************)
hobby_keywords ==
    << <<"Sing">>, <<"piano">>, <<"Music">>, <<"football">>, <<"reading">>,
       <<"video", " ", "games">> >>

ListedHobbies(s) ==
    LET m == SearchLabeled(s, HobbiesLabels, NotDotNewline)
    IN  IF m.found THEN SplitItems(m.group) ELSE <<>>

HobbiesOf(s) == AppendFound(ListedHobbies(s), hobby_keywords, 1, s)

extract_hobbies(s, raises) == IF raises THEN <<>> ELSE HobbiesOf(s)

(***************************************************************************)
(* Dictionaries: a function from the keys that are present.                *)
(***************************************************************************)
EmptyDict == [k \in {} |-> <<>>]

HasKey(d, k) == k \in DOMAIN d

\* re.search(r'\d', s): the lexicon has digits in "digits" lexemes only.
HasDigit(s) == \E i \in DOMAIN s : s[i] \in DigitWords

HasLexeme(s, c) == \E i \in DOMAIN s : s[i] = c

(***************************************************************************)
(* _extract_personal_info, lines 103-139.                                  *)
(***************************************************************************)
IsCap(c) == c \in CapWords

IsUpper(c) == c \in UpperWords

NextCapAt(s, p, e) ==
    IF p # 0 /\ e >= p + 1 /\ e + 1 <= Len(s) /\ IsCap(s[e + 1]) THEN e + 1 ELSE 0

\* \s+[A-Z][a-z]+ right after the lexeme at p: the index of that word, or 0.
NextCap(s, p) == NextCapAt(s, p, RunEnd(s, p + 1, IsSpace))

\* [A-Z][a-z]+(?:\s+[A-Z][a-z]+){1,3} at i: the index of the last word, or 0.
RECURSIVE CapRunFrom(_, _, _, _)
CapRunFrom(s, p, n, more) ==
    IF n = 0 THEN p
    ELSE IF more = 0 THEN n
    ELSE CapRunFrom(s, n, NextCap(s, n), more - 1)

CapRunEnd(s, i) ==
    IF ~IsCap(s[i]) THEN 0 ELSE CapRunFrom(s, 0, NextCap(s, i), 2)

\* line 110: r'([A-Z][a-z]+(?:\s+[A-Z][a-z]+){1,3})'
NamePattern1(s) ==
    FirstSpan(s, {i \in 1..Len(s) : CapRunEnd(s, i) # 0}, LAMBDA i : CapRunEnd(s, i))

UpperOrSpace(c) == IsUpper(c) \/ IsSpace(c)

\* line 111: r'([A-Z][A-Z\s]+[A-Z])'.  It starts at the first all-capitals
\* word, runs over capitals and whitespace, takes the capital that begins a
\* following word, and gives back what follows its last capital.
UpperNameAt(s, i, e) ==
    IF i = 0 THEN NoMatch
    ELSE IF e + 1 <= Len(s) /\ IsCap(s[e + 1])
    THEN [found |-> TRUE, first |-> i, last |-> e + 1,
          group |-> Slice(s, i, e) \o <<InitialOf(s[e + 1])>>]
    ELSE Span(s, i, Greatest({k \in i..e : IsUpper(s[k])}))

UpperNameFrom(s, i) == UpperNameAt(s, i, RunEnd(s, i, UpperOrSpace))

NamePattern2(s) == UpperNameFrom(s, Least({i \in 1..Len(s) : IsUpper(s[i])}))

\* The literal kw stands at position i of s, case compared.
ExactAt(s, i, kw) ==
    /\ i >= 1
    /\ i + Len(kw) - 1 <= Len(s)
    /\ \A k \in 1..Len(kw) : s[i + k - 1] = kw[k]

NameLabels == { <<"Je", " ", "m", "'", "appelle">>, <<"I", " ", "am">>, <<"Name">> }

\* line 112: r'(?:Je m\'appelle|I am|Name)[:\s]*([A-Z][a-z]+(?:\s+[A-Z][a-z]+){1,3})'
\* The first lexeme of the name that a label at i introduces, or 0.
LabeledNameAt(s, i) ==
    Least({RunEnd(s, i + Len(kw), InLabelGap) + 1 :
              kw \in {l \in NameLabels : ExactAt(s, i, l)}})

LabeledNameFrom(s, g) ==
    IF g = 0 THEN NoMatch
    ELSE [found |-> TRUE, first |-> g, last |-> CapRunEnd(s, g),
          group |-> Slice(s, g, CapRunEnd(s, g))]

NamePattern3(s) ==
    LabeledNameFrom(s,
        Least({LabeledNameAt(s, i) : i \in {j \in 1..Len(s) :
                  /\ LabeledNameAt(s, j) # 0
                  /\ LabeledNameAt(s, j) <= Len(s)
                  /\ CapRunEnd(s, LabeledNameAt(s, j)) # 0}}))

\* line 113: r'([A-Z][a-z]+\s+[A-Z][a-z]+\s+[A-Z][a-z]+)'
NamePattern4(s) ==
    FirstSpan(s, {i \in 1..Len(s) : IsCap(s[i]) /\ NextCap(s, NextCap(s, i)) # 0},
              LAMBDA i : NextCap(s, NextCap(s, i)))

\* line 120: len(name) > 3 and not re.search(r'\d', name)
NameAccepted(name) == StrLen(name) > 3 /\ ~HasDigit(name)

\* lines 118-121: the name of a match, <<name>>, or <<>> when it is not taken
NameOf(m) == IF m.found /\ NameAccepted(Strip(m.group)) THEN <<Strip(m.group)>> ELSE <<>>

\* a or b: the first of two optional values
FirstFound(a, b) == IF a # <<>> THEN a ELSE b

\* lines 116-122: the first pattern whose first match is accepted
PatternName(s) ==
    FirstFound(NameOf(NamePattern1(s)),
    FirstFound(NameOf(NamePattern2(s)),
    FirstFound(NameOf(NamePattern3(s)), NameOf(NamePattern4(s)))))

\* lines 129-131: a line of the header that may be a name
HeaderLineOk(line) ==
    /\ line # <<>>
    /\ StrLen(line) > 5
    /\ ~HasDigit(line)
    /\ ~HasLexeme(line, "@")
    /\ ~HasLexeme(line, "+")

\* lines 126-133: the first such line among the first five
FirstHeaderLine(lines) ==
    IF \E i \in DOMAIN lines : HeaderLineOk(lines[i])
    THEN <<lines[Least({i \in DOMAIN lines : HeaderLineOk(lines[i])})]>>
    ELSE <<>>

\* lines 126-133 looking at every line of the text
HeaderNameAllLinesMutant(s) == FirstHeaderLine(MapStrip(Split(s, "\n")))

HeaderName(s) == FirstHeaderLine(MapStrip(Take(Split(s, "\n"), 5)))

NameDict(name) == IF name = <<>> THEN EmptyDict ELSE [full_name |-> name[1]]

PersonalInfoOf(s) == NameDict(FirstFound(PatternName(s), HeaderName(s)))

extract_personal_info(s, raises) == IF raises THEN EmptyDict ELSE PersonalInfoOf(s)

(***************************************************************************)
(* _extract_contact_info, lines 141-188.                                   *)
(***************************************************************************)
IsLetters(c) == c \in CapWords \/ c \in UpperWords \/ c \in LowerWords

IsDigits(c) == c \in DigitWords

\* [A-Za-z0-9._%+-]
InEmailLocal(c) == IsWord(c) \/ c \in {".", "%", "+", "-"}

\* [A-Za-z0-9.-]
InEmailDomain(c) == IsWord(c) \/ c \in {".", "-"}

\* The run of lexemes of class In that ends at e: its first index (e + 1 if none).
RunStart(s, e, In(_)) == Greatest({k \in 0..e : k = 0 \/ ~In(s[k])}) + 1

\* line 18 matched around the "@" at a: \b, the local part, "@", the domain
\* (greedy, giving back to the last "." that a top-level name follows), \b.
EmailSpan(s, a, first, lastDot) ==
    IF s[a] # "@" \/ first = 0 \/ lastDot = 0 THEN NoMatch ELSE Span(s, first, lastDot + 1)

EmailAround(s, a) ==
    EmailSpan(s, a,
        Least({i \in RunStart(s, a - 1, InEmailLocal)..(a - 1) : BoundaryBefore(s, i)}),
        Greatest({d \in (a + 2)..RunEnd(s, a + 1, InEmailDomain) :
                     /\ s[d] = "."
                     /\ d + 1 <= Len(s)
                     /\ IsLetters(s[d + 1]) /\ LexLen(s[d + 1]) >= 2
                     /\ BoundaryBefore(s, d + 2)}))

\* re.search(self.patterns['email'], s), from position `from` on
StartsFrom(m, from) == m.found /\ m.first >= from

EmailAt(s, a) == IF a = 0 THEN NoMatch ELSE EmailAround(s, a)

EmailFrom(s, from) ==
    EmailAt(s, Least({a \in from..Len(s) : StartsFrom(EmailAround(s, a), from)}))

EmailMatch(s) == EmailFrom(s, 1)

\* Digit lexemes by their spelling: 237, 33 or 0 followed by nine digits.
Spelled237 == {"237699112233"}

Spelled33 == {"33612345678"}

Spelled0 == {"0612345678"}

\* [0-9]{lo,hi} as one whole lexeme
DigitsOfLen(c, lo, hi) == IsDigits(c) /\ LexLen(c) >= lo /\ LexLen(c) <= hi

\* 237\s*[0-9]{8,9} at i: the index of its last lexeme, or 0
Body237(s, i) ==
    IF i < 1 \/ i > Len(s) THEN 0
    ELSE IF s[i] \in Spelled237 THEN i
    ELSE IF s[i] # "237" THEN 0
    ELSE LET n == RunEnd(s, i + 1, IsSpace) + 1
         IN  IF n <= Len(s) /\ DigitsOfLen(s[n], 8, 9) THEN n ELSE 0

\* line 153: r'(\+237\s*[0-9]{8,9})'
PhonePattern1(s) ==
    FirstSpan(s, {i \in 1..Len(s) : s[i] = "+" /\ Body237(s, i + 1) # 0},
              LAMBDA i : Body237(s, i + 1))

\* line 154: r'(237\s*[0-9]{8,9})'
PhonePattern2(s) ==
    FirstSpan(s, {i \in 1..Len(s) : Body237(s, i) # 0}, LAMBDA i : Body237(s, i))

\* line 155: r'(\+33\s*[0-9]{9,10})'
PhonePattern3(s) ==
    FirstSpan(s, {i \in 1..(Len(s) - 1) : s[i] = "+" /\ s[i + 1] \in Spelled33},
              LAMBDA i : i + 1)

\* line 156: r'(0[0-9]{9})'
PhonePattern4(s) ==
    FirstSpan(s, {i \in 1..Len(s) : s[i] \in Spelled0}, LAMBDA i : i)

\* [0-9+\s\-]
InPhoneGroup(c) == IsDigits(c) \/ IsSpace(c) \/ c \in {"+", "-"}

\* line 157: r'Phone[:\s]*([0-9+\s\-]+)', re.IGNORECASE
PhonePattern5(s) == SearchLabeled(s, {<<"phone">>}, InPhoneGroup)

\* line 158: r'Téléphone[:\s]*([0-9+\s\-]+)', re.IGNORECASE
PhonePattern6(s) == SearchLabeled(s, {<<"téléphone">>}, InPhoneGroup)

PhoneMinLen == 8

\* line 165: the match of a pattern is taken when it is long enough
PhoneAccepted(phone) == StrLen(phone) >= PhoneMinLen

\* lines 163-166: the phone of a match, <<phone>>, or <<>> when it is not taken
PhoneText(m) ==
    IF m.found /\ PhoneAccepted(Strip(m.group)) THEN <<Strip(m.group)>> ELSE <<>>

\* lines 161-167 with the pattern of line 154 tried before that of line 153
PhoneOfSecondFirstMutant(s) ==
    FirstFound(PhoneText(PhonePattern2(s)),
    FirstFound(PhoneText(PhonePattern1(s)),
    FirstFound(PhoneText(PhonePattern3(s)),
    FirstFound(PhoneText(PhonePattern4(s)),
    FirstFound(PhoneText(PhonePattern5(s)), PhoneText(PhonePattern6(s)))))))

\* lines 161-167: the patterns in their order, the first accepted match wins
PhoneOf(s) ==
    FirstFound(PhoneText(PhonePattern1(s)),
    FirstFound(PhoneText(PhonePattern2(s)),
    FirstFound(PhoneText(PhonePattern3(s)),
    FirstFound(PhoneText(PhonePattern4(s)),
    FirstFound(PhoneText(PhonePattern5(s)), PhoneText(PhonePattern6(s)))))))

InWordDash(c) == IsWord(c) \/ c = "-"

InWordDashPercent(c) == IsWord(c) \/ c \in {"-", "%"}

NotSpace(c) == ~IsSpace(c) /\ c \notin {"<", ">", "\""}

IsScheme(s, i) ==
    /\ i >= 1
    /\ i + 3 <= Len(s)
    /\ s[i] \in {"http", "https"}
    /\ Slice(s, i + 1, i + 3) = <<":", "/", "/">>

\* (?:https?://)?(?:www\.)? standing right before i: where the match starts
WithUrlPrefix(s, i) ==
    LET w == IF i > 2 /\ Slice(s, i - 2, i - 1) = <<"www", ".">> THEN i - 2 ELSE i
    IN  IF IsScheme(s, w - 4) THEN w - 4 ELSE w

\* HOST/REST+ at i: the index of the last lexeme, or 0
UrlCoreEnd(s, i, host, InRest(_)) ==
    IF ExactAt(s, i, host) /\ RunEnd(s, i + Len(host), InRest) >= i + Len(host)
    THEN RunEnd(s, i + Len(host), InRest) ELSE 0

UrlFrom(s, i, host, InRest(_)) ==
    IF i = 0 THEN NoMatch
    ELSE Span(s, WithUrlPrefix(s, i), UrlCoreEnd(s, i, host, InRest))

UrlMatch(s, host, InRest(_)) ==
    UrlFrom(s, Least({i \in 1..Len(s) : UrlCoreEnd(s, i, host, InRest) # 0}), host, InRest)

\* line 20: r'(?:https?://)?(?:www\.)?linkedin\.com/in/[\w\-%]+'
LinkedinMatch(s) ==
    UrlMatch(s, <<"linkedin", ".", "com", "/", "in", "/">>, InWordDashPercent)

\* line 21: r'(?:https?://)?(?:www\.)?github\.com/[\w\-]+'
GithubMatch(s) == UrlMatch(s, <<"github", ".", "com", "/">>, InWordDash)

\* line 22: r'https?://(?:www\.)?[^\s<>"]+|www\.[^\s<>"]+'
WebsiteMatch(s) ==
    FirstSpan(s, {i \in 1..Len(s) :
                    \/ IsScheme(s, i) /\ RunEnd(s, i + 4, NotSpace) >= i + 4
                    \/ ExactAt(s, i, <<"www", ".">>) /\ RunEnd(s, i + 2, NotSpace) >= i + 2},
              LAMBDA i : RunEnd(s, i, NotSpace))

\* lines 144-184: the keys of the mapping are those of the matches found
ContactDict(email, phone, linkedin, github, website) ==
    LET keys == {k \in {"email", "phone", "linkedin", "github", "website"} :
                   \/ k = "email" /\ email.found
                   \/ k = "phone" /\ phone # <<>>
                   \/ k = "linkedin" /\ linkedin.found
                   \/ k = "github" /\ github.found
                   \/ k = "website" /\ website.found}
    IN  [k \in keys |->
            CASE k = "email" -> email.group
              [] k = "phone" -> phone[1]
              [] k = "linkedin" -> linkedin.group
              [] k = "github" -> github.group
              [] k = "website" -> website.group]

ContactInfoOf(s) ==
    ContactDict(EmailMatch(s), PhoneOf(s), LinkedinMatch(s), GithubMatch(s), WebsiteMatch(s))

extract_contact_info(s, raises) == IF raises THEN EmptyDict ELSE ContactInfoOf(s)

(***************************************************************************)
(* Character offsets: s.find(kw) and the slice s[a:b] of characters.       *)
(***************************************************************************)
\* The 0-based character offset at which lexeme i of s starts.
CharStart(s, i) == StrLen(Slice(s, 1, i - 1))

\* kw.lower() in s.lower(): the lexeme index of the first occurrence, or 0.
FindLiteral(s, kw) == Least({i \in 1..Len(s) : LiteralAt(s, i, kw)})

\* s[a:b] for character offsets a <= b.  A lexeme the slice would cut is left
\* out: the texts of the model keep the slices on lexeme borders.
CharSlice(s, a, b) ==
    LET inside == {i \in 1..Len(s) : CharStart(s, i) >= a /\ CharStart(s, i + 1) <= b}
    IN  IF inside = {} THEN <<>> ELSE Slice(s, Min(inside), Max(inside))

\* s[max(0, find - r) : min(len(s), find + r)] around the lexeme at i
Window(s, i, r) ==
    LET at == CharStart(s, i)
        a  == IF at - r < 0 THEN 0 ELSE at - r
        b  == IF at + r > StrLen(s) THEN StrLen(s) ELSE at + r
    IN  CharSlice(s, a, b)

(***************************************************************************)
(* _extract_address, lines 190-222.                                        *)
(***************************************************************************)
AddressLabels == { <<"adresse">>, <<"adresses">>, <<"address">> }

PlaceNames == { <<"yassa">>, <<"douala">>, <<"littoral">> }

CityLabels == { <<"ville">>, <<"city">> }

\* line 196: r'(?:Yassa|Douala|Littoral)[^.\n]*': no group, the whole match
PlaceMatch(s) ==
    FirstSpan(s, {i \in 1..Len(s) : LabelEnds(s, i, PlaceNames) # {}},
              LAMBDA i : RunEnd(s, i + 1, NotDotNewline))

AddressMinLen == 5

\* line 204: address and len(address.strip()) > 5
AddressAccepted(address) == address # <<>> /\ StrLen(Strip(address)) > AddressMinLen

\* lines 201-205: the address of a match, <<address>>, or <<>> when it is not taken
AddressText(m) ==
    IF m.found /\ AddressAccepted(m.group) THEN <<Strip(m.group)>> ELSE <<>>

location_keywords ==
    << <<"yassa">>, <<"douala">>, <<"littoral">>, <<"cameroun">>, <<"cameroon">> >>

AddressWindow == 50

\* lines 209-216: the window around the first keyword that occurs
NearbyAddress(s) ==
    LET present == {k \in DOMAIN location_keywords : FindLiteral(s, location_keywords[k]) # 0}
    IN  IF present = {} THEN <<>>
        ELSE Strip(Window(s, FindLiteral(s, location_keywords[Min(present)]), AddressWindow))

AddressOf(s) ==
    FirstFound(AddressText(SearchLabeled(s, AddressLabels, NotDotNewline)),
    FirstFound(AddressText(PlaceMatch(s)),
    FirstFound(AddressText(SearchLabeled(s, CityLabels, NotDotNewline)),
               <<NearbyAddress(s)>>)))[1]

extract_address(s, raises) == IF raises THEN <<>> ELSE AddressOf(s)

(***************************************************************************)
(* _extract_professional_summary, lines 224-248.                           *)
(***************************************************************************)
summary_keywords ==
    { "résumé", "summary", "profil", "profile", "objectif", "objective",
      "ambitious", "determined", "hardworking" }

\* any(keyword in line_lower for keyword in keywords), one-word keywords
HasKeyword(line, keywords) == \E i \in DOMAIN line : Lower(line[i]) \in keywords

SummaryAhead == 5

SummaryMinLen == 10

SummaryMaxLines == 3

\* lines 235-240 without the bound of three lines
SummaryLinesNoCapMutant(lines, i) ==
    LET last == IF i + SummaryAhead < Len(lines) THEN i + SummaryAhead ELSE Len(lines)
    IN  SelectSeq(MapStrip(Slice(lines, i + 1, last)), LAMBDA l : StrLen(l) > SummaryMinLen)

\* lines 235-240: of the lines after line i, the long ones, three at most
SummaryLines(lines, i) ==
    LET last == IF i + SummaryAhead < Len(lines) THEN i + SummaryAhead ELSE Len(lines)
        long == SelectSeq(MapStrip(Slice(lines, i + 1, last)),
                          LAMBDA l : StrLen(l) > SummaryMinLen)
    IN  Take(long, SummaryMaxLines)

\* lines 231-244: the first keyword line that has such lines after it
SummaryOf(s) ==
    LET lines == Split(s, "\n")
        hits == {i \in DOMAIN lines :
                   HasKeyword(lines[i], summary_keywords) /\ SummaryLines(lines, i) # <<>>}
    IN  IF hits = {} THEN <<>> ELSE Join(SummaryLines(lines, Min(hits)), " ")

extract_professional_summary(s, raises) == IF raises THEN <<>> ELSE SummaryOf(s)

(***************************************************************************)
(* _extract_work_experience, lines 250-295.                                *)
(***************************************************************************)
exp_keywords == { <<"intern">>, <<"stagiaire">>, <<"développeur">>, <<"developer">>,
                  <<"mobile", " ", "developer">> }

employer_names == { <<"com", ".", "info">>, <<"devsec">>, <<"proditech">>, <<"enspd">> }

\* lines 265-266
IsExperienceStart(line) ==
    \/ \E kw \in exp_keywords : FindLiteral(line, kw) # 0
    \/ \E kw \in employer_names : \E i \in 1..Len(line) :
          BoundaryBefore(line, i) /\ LiteralAt(line, i, kw) /\ BoundaryBefore(line, i + Len(kw))

\* re.search(r'\d{4}', line)
HasYear(line) == \E i \in DOMAIN line : IsDigits(line[i]) /\ LexLen(line[i]) >= 4

CompanyMaxLen == 100

\* lines 280-285 without the test that the company is unset
ExperienceDetailOverwriteMutant(cur, line) ==
    IF StrLen(Strip(line)) < CompanyMaxLen
    THEN [cur EXCEPT !.company = Strip(line)]
    ELSE IF cur.period = <<>> /\ HasYear(line)
    THEN [cur EXCEPT !.period = Strip(line)]
    ELSE [cur EXCEPT !.description = Append(@, Strip(line))]

\* lines 280-285: a detail line goes to the first slot that takes it
ExperienceDetail(cur, line) ==
    IF cur.company = <<>> /\ StrLen(Strip(line)) < CompanyMaxLen
    THEN [cur EXCEPT !.company = Strip(line)]
    ELSE IF cur.period = <<>> /\ HasYear(line)
    THEN [cur EXCEPT !.period = Strip(line)]
    ELSE [cur EXCEPT !.description = Append(@, Strip(line))]

\* lines 261-285 without the flush of lines 288-289 at the end of the text
RECURSIVE ExperienceScanNoFlushMutant(_, _, _)
ExperienceScanNoFlushMutant(lines, done, cur) ==
    IF lines = <<>>
    THEN done
    ELSE LET line == Head(lines)
         IN  IF IsExperienceStart(line)
             THEN ExperienceScanNoFlushMutant(Tail(lines),
                      IF cur # <<>> /\ cur[1].title # <<>> THEN Append(done, cur[1]) ELSE done,
                      << [title |-> Strip(line), company |-> <<>>, period |-> <<>>,
                          description |-> <<>>] >>)
             ELSE IF cur # <<>> /\ Strip(line) # <<>>
             THEN ExperienceScanNoFlushMutant(Tail(lines), done, <<ExperienceDetail(cur[1], line)>>)
             ELSE ExperienceScanNoFlushMutant(Tail(lines), done, cur)

\* lines 261-289.  cur is <<>> for {} and <<entry>> otherwise.
RECURSIVE ExperienceScan(_, _, _)
ExperienceScan(lines, done, cur) ==
    IF lines = <<>>
    THEN IF cur # <<>> /\ cur[1].title # <<>> THEN Append(done, cur[1]) ELSE done
    ELSE LET line == Head(lines)
         IN  IF IsExperienceStart(line)
             THEN ExperienceScan(Tail(lines),
                      IF cur # <<>> /\ cur[1].title # <<>> THEN Append(done, cur[1]) ELSE done,
                      << [title |-> Strip(line), company |-> <<>>, period |-> <<>>,
                          description |-> <<>>] >>)
             ELSE IF cur # <<>> /\ Strip(line) # <<>>
             THEN ExperienceScan(Tail(lines), done, <<ExperienceDetail(cur[1], line)>>)
             ELSE ExperienceScan(Tail(lines), done, cur)

WorkExperienceOf(s) == ExperienceScan(Split(s, "\n"), <<>>, <<>>)

extract_work_experience(s, raises) == IF raises THEN <<>> ELSE WorkExperienceOf(s)

(***************************************************************************)
(* _extract_education, lines 297-341.                                      *)
(***************************************************************************)
edu_patterns ==
    { <<"national", " ", "higher", " ", "polytechnic", " ", "school", " ", "of", " ", "douala">>,
      <<"lycee", " ", "de", " ", "la", " ", "cite", " ", "des", " ", "palmiers">>,
      <<"baccalaureat">>, <<"bachelor">>, <<"master">>, <<"phd">> }

\* line 315
IsEducationStart(line) == \E kw \in edu_patterns : FindLiteral(line, kw) # 0

\* lines 327-332 with the test of the year before that of the institution
EducationDetailYearFirstMutant(cur, line) ==
    IF cur.year = <<>> /\ HasYear(line)
    THEN [cur EXCEPT !.year = Strip(line)]
    ELSE IF cur.institution = <<>> /\ StrLen(Strip(line)) < CompanyMaxLen
    THEN [cur EXCEPT !.institution = Strip(line)]
    ELSE [cur EXCEPT !.description = Append(@, Strip(line))]

\* lines 327-332
EducationDetail(cur, line) ==
    IF cur.institution = <<>> /\ StrLen(Strip(line)) < CompanyMaxLen
    THEN [cur EXCEPT !.institution = Strip(line)]
    ELSE IF cur.year = <<>> /\ HasYear(line)
    THEN [cur EXCEPT !.year = Strip(line)]
    ELSE [cur EXCEPT !.description = Append(@, Strip(line))]

\* lines 312-332 without the flush of lines 334-335 at the end of the text
RECURSIVE EducationScanNoFlushMutant(_, _, _)
EducationScanNoFlushMutant(lines, done, cur) ==
    IF lines = <<>>
    THEN done
    ELSE LET line == Head(lines)
         IN  IF IsEducationStart(line)
             THEN EducationScanNoFlushMutant(Tail(lines),
                      IF cur # <<>> /\ cur[1].degree # <<>> THEN Append(done, cur[1]) ELSE done,
                      << [degree |-> Strip(line), institution |-> <<>>, year |-> <<>>,
                          description |-> <<>>] >>)
             ELSE IF cur # <<>> /\ Strip(line) # <<>>
             THEN EducationScanNoFlushMutant(Tail(lines), done, <<EducationDetail(cur[1], line)>>)
             ELSE EducationScanNoFlushMutant(Tail(lines), done, cur)

\* lines 312-335
RECURSIVE EducationScan(_, _, _)
EducationScan(lines, done, cur) ==
    IF lines = <<>>
    THEN IF cur # <<>> /\ cur[1].degree # <<>> THEN Append(done, cur[1]) ELSE done
    ELSE LET line == Head(lines)
         IN  IF IsEducationStart(line)
             THEN EducationScan(Tail(lines),
                      IF cur # <<>> /\ cur[1].degree # <<>> THEN Append(done, cur[1]) ELSE done,
                      << [degree |-> Strip(line), institution |-> <<>>, year |-> <<>>,
                          description |-> <<>>] >>)
             ELSE IF cur # <<>> /\ Strip(line) # <<>>
             THEN EducationScan(Tail(lines), done, <<EducationDetail(cur[1], line)>>)
             ELSE EducationScan(Tail(lines), done, cur)

EducationOf(s) == EducationScan(Split(s, "\n"), <<>>, <<>>)

extract_education(s, raises) == IF raises THEN <<>> ELSE EducationOf(s)

(***************************************************************************)
(* _extract_projects, lines 427-453.                                       *)
(***************************************************************************)
project_keywords ==
    << [name |-> <<"LINA", " ", "Project">>, lower |-> <<"lina", " ", "project">>],
       [name |-> <<"AFRISOLUTION">>, lower |-> <<"afrisolution">>],
       [name |-> <<"Devsec", " ", "website">>, lower |-> <<"devsec", " ", "website">>],
       [name |-> <<"Camtel", " ", "Bluetech", " ", "Challenge">>,
        lower |-> <<"camtel", " ", "bluetech", " ", "challenge">>] >>

ProjectWindow == 100

RECURSIVE ProjectsFrom(_, _)
ProjectsFrom(s, k) ==
    IF k > Len(project_keywords) THEN <<>>
    ELSE LET at == FindLiteral(s, project_keywords[k].lower)
             context == IF at = 0 THEN <<>> ELSE Window(s, at, ProjectWindow)
         IN  (IF context = <<>> THEN <<>>
              ELSE << [name |-> project_keywords[k].name, description |-> Strip(context),
                       technologies |-> <<>>] >>)
             \o ProjectsFrom(s, k + 1)

ProjectsOf(s) == ProjectsFrom(s, 1)

extract_projects(s, raises) == IF raises THEN <<>> ELSE ProjectsOf(s)

(***************************************************************************)
(* _calculate_confidence_score, lines 480-507.  Scores are in hundredths.  *)
(***************************************************************************)
LongText == 500

VeryLongText == 1000

\* line 19: r'(\+237|237|\+33|0)[\s\-]?[0-9]{8,10}'
ScorePhoneFound(s) ==
    \E i \in 1..Len(s) :
        \/ s[i] \in Spelled237 \cup Spelled0
        \/ s[i] \in Spelled33 /\ i > 1 /\ s[i - 1] = "+"
        \/ /\ s[i] = "237"
           /\ i + 2 <= Len(s)
           /\ IsSpace(s[i + 1]) \/ s[i + 1] = "-"
           /\ IsDigits(s[i + 2]) /\ LexLen(s[i + 2]) >= 8

\* line 496: r'\b\d{4}\b'
ScoreYearFound(s) ==
    \E i \in 1..Len(s) :
        DigitsOfLen(s[i], 4, 4) /\ BoundaryBefore(s, i) /\ BoundaryBefore(s, i + 1)

\* \b(?:A|B)\b, case compared
ExactWordFound(s, words) ==
    \E i \in 1..Len(s) : s[i] \in words /\ BoundaryBefore(s, i) /\ BoundaryBefore(s, i + 1)

Signal(present, weight) == IF present THEN weight ELSE 0

\* lines 483-503, the year signal granted when no year is found
ScoreOfYearInvertedMutant(s) ==
    LET score == Signal(StrLen(s) > LongText, 20)
               + Signal(StrLen(s) > VeryLongText, 20)
               + Signal(EmailMatch(s).found, 15)
               + Signal(ScorePhoneFound(s), 15)
               + Signal(~ScoreYearFound(s), 10)
               + Signal(ExactWordFound(s, {"Compétence", "Compétences", "Skill", "Skills"}), 10)
               + Signal(ExactWordFound(s, {"Education", "Formation"}), 10)
    IN  IF score < 100 THEN score ELSE 100

\* lines 483-503, the length signals weighing 0.3 each and no clamp
ScoreOfUnclampedMutant(s) ==
    Signal(StrLen(s) > LongText, 30)
        + Signal(StrLen(s) > VeryLongText, 30)
        + Signal(EmailMatch(s).found, 15)
        + Signal(ScorePhoneFound(s), 15)
        + Signal(ScoreYearFound(s), 10)
        + Signal(ExactWordFound(s, {"Compétence", "Compétences", "Skill", "Skills"}), 10)
        + Signal(ExactWordFound(s, {"Education", "Formation"}), 10)

\* lines 483-503, the phone signal weighing 0.1
ScoreOfPhoneLightMutant(s) ==
    LET score == Signal(StrLen(s) > LongText, 20)
               + Signal(StrLen(s) > VeryLongText, 20)
               + Signal(EmailMatch(s).found, 15)
               + Signal(ScorePhoneFound(s), 10)
               + Signal(ScoreYearFound(s), 10)
               + Signal(ExactWordFound(s, {"Compétence", "Compétences", "Skill", "Skills"}), 10)
               + Signal(ExactWordFound(s, {"Education", "Formation"}), 10)
    IN  IF score < 100 THEN score ELSE 100

\* lines 483-503
ScoreOf(s) ==
    LET score == Signal(StrLen(s) > LongText, 20)
               + Signal(StrLen(s) > VeryLongText, 20)
               + Signal(EmailMatch(s).found, 15)
               + Signal(ScorePhoneFound(s), 15)
               + Signal(ScoreYearFound(s), 10)
               + Signal(ExactWordFound(s, {"Compétence", "Compétences", "Skill", "Skills"}), 10)
               + Signal(ExactWordFound(s, {"Education", "Formation"}), 10)
    IN  IF score < 100 THEN score ELSE 100

FaultScore == 50

\* line 507 returning the floor of the score on a fault
calculate_confidence_scoreFloorMutant(s, raises) == IF raises THEN 0 ELSE ScoreOf(s)

\* lines 480-507
calculate_confidence_score(s, raises) == IF raises THEN FaultScore ELSE ScoreOf(s)

(***************************************************************************)
(* extract_cv_information, lines 33-69.                                    *)
(***************************************************************************)
\* The routines that catch what is raised inside them and return a default.
SubExtractors ==
    { "personal_info", "contact_info", "address", "professional_summary",
      "work_experience", "education", "skills", "languages", "certifications",
      "projects", "hobbies", "confidence_score" }

\* An exception raised in _clean_text_improved after the statement of that
\* line: `text` then holds what the statements before it made of it.
CleanFaults == { "clean78", "clean81", "clean84", "clean87" }

\* lines 99-101: return text.strip()
CleanFallback(s, f) ==
    CASE f = "clean78" -> Strip(s)
      [] f = "clean81" -> Strip(RemoveControl(s))
      [] f = "clean84" -> Strip(CollapseSpaces(RemoveControl(s)))
      [] f = "clean87" -> Strip(CollapseBlankLines(CollapseSpaces(RemoveControl(s))))

CleanText(s, f) ==
    IF s = <<>> THEN <<>>
    ELSE IF f \in CleanFaults THEN CleanFallback(s, f)
    ELSE CleanSteps(s)

TopLevelKeys ==
    { "personal_info", "contact_info", "address", "professional_summary",
      "work_experience", "education", "skills", "languages", "certifications",
      "projects", "hobbies", "extraction_metadata" }

\* lines 41-62: the mapping built from the cleaned text
Assemble(c, raising, poss) ==
    [ personal_info        |-> extract_personal_info(c, "personal_info" \in raising),
      contact_info         |-> extract_contact_info(c, "contact_info" \in raising),
      address              |-> extract_address(c, "address" \in raising),
      professional_summary |-> extract_professional_summary(c, "professional_summary" \in raising),
      work_experience      |-> extract_work_experience(c, "work_experience" \in raising),
      education            |-> extract_education(c, "education" \in raising),
      skills               |-> extract_skills(c, "skills" \in raising, poss),
      languages            |-> extract_languages(c, "languages" \in raising),
      certifications       |-> extract_certifications(c, "certifications" \in raising),
      projects             |-> extract_projects(c, "projects" \in raising),
      hobbies              |-> extract_hobbies(c, "hobbies" \in raising),
      extraction_metadata  |->
          [ text_length      |-> StrLen(c),
            extraction_method |-> "improved_regex_based",
            confidence_score |-> calculate_confidence_score(c, "confidence_score" \in raising),
            note |-> "Extraction améliorée avec patterns optimisés" ] ]

\* lines 38-65: the text is cleaned, then the mapping is built from it
CvData(s, f, poss) == Assemble(CleanText(s, f), {f}, poss)

\* The places where this call raises: the injected one, and line 365 where
\* the runtime does not take 'c++' for a pattern.
RaisedIn(f, poss) == ({f} \ {"none"}) \cup (IF poss THEN {} ELSE {"skills"})

\* The places whose exceptions an `except Exception` of their own routine
\* catches: lines 99, 137, 186, 220, 246, 293, 339, 378, 406, 423, 451, 476, 505.
CaughtLocallyMutant == (SubExtractors \ {"skills"}) \cup CleanFaults

CaughtLocally == SubExtractors \cup CleanFaults

\* lines 67-69: what reaches the try block of extract_cv_information is raised again.
Propagates(f, poss) == \E place \in RaisedIn(f, poss) : place \notin CaughtLocally

extract_cv_information ==
    /\ pc = "ready"
    /\ cleaned' = CleanText(text, fault)
    /\ IF Propagates(fault, possessive)
       THEN pc' = "raised" /\ cv_data' = NoData
       ELSE pc' = "returned" /\ cv_data' = CvData(text, fault, possessive)
    /\ UNCHANGED <<text, fault, possessive, recleaned, patterns, handlers, outputs, uploads, cleanup>>

(***************************************************************************)
(* The documents of the model: up to MaxLines lines of a bank, joined by   *)
(* newlines.                                                               *)
(***************************************************************************)
MaxLines == 2

Documents(bank) == {Join(ls, "\n") : ls \in SeqsUpTo(bank, MaxLines)}

\* A header, contact lines, sections and bare lines as they come out of a PDF.
PipelineBank ==
    { <<"\f", " ", "Jean", " ", " ", "Dupont">>,
      <<"Contact", " ", "jean", "@", "example", ".", "com">>,
      <<"+", "237699112233">>,
      <<"Skills", ":", " ", "Python", ",", " ", "SQL">>,
      <<"Education", ":", " ", "Bachelor", " ", "of", " ", "Science", ",", " ", "2019">>,
      <<"Developer", " ", "Douala">>,
      <<"Hobbies", ":", " ", "piano", ",", " ", "Chess">> }

Init ==
    /\ text \in Documents(PipelineBank)
    /\ fault \in {"none"} \cup SubExtractors \cup CleanFaults
    /\ possessive \in BOOLEAN
    /\ pc = "ready"
    /\ cleaned = <<>>
    /\ recleaned = <<>>
    /\ cv_data = NoData
    /\ ServiceIdle

Next == extract_cv_information

Spec == Init /\ [][Next]_vars

(***************************************************************************)
(* Documents made of list sections and of keywords outside them.           *)
(***************************************************************************)
ListsBank ==
    { <<"Skills", ":", " ", "Python", ",", " ", "Python">>,
      <<"Skills", ":", " ", "Python", ";", "Java">>,
      <<"Jean", " ", "PYTHON">>,
      <<"python">>,
      <<"Hobbies", ":", " ", "piano", ",", " ", "piano">>,
      <<"Hobbies", ":", " ", "Chess", ",", "Music">>,
      <<"Languages", ":", " ", "French", ",", " ", "Spanish", ",", "French">>,
      <<"Languages", ":", " ", "Spanish", ",", " ", "Spanish">>,
      <<"Fluent", " ", "English">> }

InitLists ==
    /\ text \in Documents(ListsBank)
    /\ fault = "none"
    /\ possessive \in BOOLEAN
    /\ pc = "ready"
    /\ cleaned = <<>>
    /\ recleaned = <<>>
    /\ cv_data = NoData
    /\ ServiceIdle

SpecLists == InitLists /\ [][Next]_vars

(***************************************************************************)
(* Documents made of education and experience lines.                       *)
(***************************************************************************)
EducationBank ==
    { <<"Education", ":", " ", "Bachelor", " ", "of", " ", "Science", ",", " ", "2019">>,
      <<"Bachelor", " ", "of", " ", "Science">>,
      <<"Education">>,
      <<"Acme">>,
      <<"2019">>,
      <<"Developer">>,
      <<"Jean", " ", "Dupont">>,
      <<"Science", ",", " ", "2019">> }

InitEducation ==
    /\ text \in Documents(EducationBank)
    /\ fault \in {"none", "education"}
    /\ possessive \in BOOLEAN
    /\ pc = "ready"
    /\ cleaned = <<>>
    /\ recleaned = <<>>
    /\ cv_data = NoData
    /\ ServiceIdle

SpecEducation == InitEducation /\ [][Next]_vars

(***************************************************************************)
(* Properties of extract_cv_information.                                   *)
(***************************************************************************)
Fields == TopLevelKeys \ {"extraction_metadata"}

\* What the call returns when nothing is injected into it.
Unfaulted == CvData(text, "none", possessive)

\* The value a routine returns from its `except` branch.
DefaultOf(field) ==
    IF field \in {"personal_info", "contact_info"} THEN EmptyDict ELSE <<>>

NoDuplicates(list) ==
    \A i, j \in DOMAIN list : list[i] = list[j] => i = j

(***************************************************************************)
(* C2: extract_cv_information never raises for a string input, whatever    *)
(* faults inside its routines and whatever the runtime's pattern syntax,   *)
(* and the mapping it returns has exactly the twelve top-level keys.       *)
(***************************************************************************)
C2_TotalWithAllKeys ==
    /\ pc # "raised"
    /\ pc = "returned" => DOMAIN cv_data = TopLevelKeys

\* A call returned although the keyword search of the skills raised, on a
\* text in which no name, skill or education was detected.
C2_Witness ==
    /\ pc = "returned"
    /\ ~possessive
    /\ text # <<>>
    /\ cv_data.personal_info = EmptyDict
    /\ cv_data.skills = <<>>
    /\ cv_data.education = <<>>
    /\ HasKey(cv_data.contact_info, "phone")

(***************************************************************************)
(* C3: when one routine faults, the call still returns, the routine's      *)
(* field holds its default ({} for the two mappings, "" or [] for the      *)
(* others, 0.5 for the score) and every other field is what it is without  *)
(* the fault.                                                              *)
(***************************************************************************)
C3_FaultContained ==
    fault \in SubExtractors =>
        /\ pc # "raised"
        /\ pc = "returned" =>
            LET base == Unfaulted
            IN  /\ \A k \in Fields :
                       cv_data[k] = IF k = fault THEN DefaultOf(k) ELSE base[k]
                /\ cv_data.extraction_metadata =
                       IF fault = "confidence_score"
                       THEN [base.extraction_metadata EXCEPT !.confidence_score = FaultScore]
                       ELSE base.extraction_metadata

\* The scoring faulted on a text whose score is not 0.5, and the routines
\* around it found a name and a phone number.
C3_Witness ==
    /\ pc = "returned"
    /\ fault = "confidence_score"
    /\ Unfaulted.extraction_metadata.confidence_score \notin {0, FaultScore}
    /\ cv_data.extraction_metadata.confidence_score = FaultScore
    /\ HasKey(cv_data.personal_info, "full_name")
    /\ HasKey(cv_data.contact_info, "phone")

(***************************************************************************)
(* C4: field independence.  The text with every e-mail address deleted     *)
(* gives the same value as the text itself in every field but the e-mail   *)
(* address (the metadata, which measures the text, is left out of the      *)
(* comparison).                                                            *)
(***************************************************************************)
\* re.sub(email pattern, '', s)
RECURSIVE RemoveEmails(_)
RemoveEmails(s) ==
    LET m == EmailMatch(s)
    IN  IF ~m.found THEN s
        ELSE Slice(s, 1, m.first - 1) \o RemoveEmails(Slice(s, m.last + 1, Len(s)))

WithoutKey(d, key) == [k \in DOMAIN d \ {key} |-> d[k]]

C4_FieldIndependence ==
    pc = "returned" /\ fault = "none" =>
        LET other == CvData(RemoveEmails(text), fault, possessive)
        IN  /\ \A k \in Fields \ {"contact_info"} : cv_data[k] = other[k]
            /\ WithoutKey(cv_data.contact_info, "email")
                   = WithoutKey(other.contact_info, "email")

(***************************************************************************)
(* C5: the skills list holds no element twice, whether the element came    *)
(* from the labeled section or from the technology vocabulary.             *)
(***************************************************************************)
C5_SkillsNoDuplicates == pc = "returned" => NoDuplicates(cv_data.skills)

(***************************************************************************)
(* C6: the languages list holds no element twice: the vocabulary words     *)
(* found in the text come first, in vocabulary order, and after them the   *)
(* tokens of the labeled section, each only if not yet in the list.        *)
(***************************************************************************)
C6_LanguagesNoDuplicates ==
    pc = "returned" =>
        LET langs  == cv_data.languages
            vocab  == SelectSeq(language_keywords, LAMBDA kw : KeywordFound(cleaned, kw))
            listed == ListedLanguages(cleaned)
            n      == Len(vocab)
        IN  /\ NoDuplicates(langs)
            /\ Len(langs) >= n
            /\ SubSeq(langs, 1, n) = vocab
            /\ \A i \in (n + 1)..Len(langs) : InList(langs[i], listed)
            /\ \A i \in DOMAIN listed : InList(listed[i], langs)
            /\ \A i, j \in (n + 1)..Len(langs) :
                   i < j => \E a, b \in DOMAIN listed :
                                a < b /\ listed[a] = langs[i] /\ listed[b] = langs[j]

\* The labeled section repeats a token that is also a vocabulary word, and
\* names a language outside the vocabulary.
C6_Witness ==
    /\ pc = "returned"
    /\ ~NoDuplicates(ListedLanguages(cleaned))
    /\ InList(<<"French">>, ListedLanguages(cleaned))
    /\ cv_data.languages = << <<"French">>, <<"Spanish">> >>

(***************************************************************************)
(* C7: the hobbies list holds no element twice, also when the labeled      *)
(* section itself repeats a token.                                         *)
(***************************************************************************)
C7_HobbiesNoDuplicates == pc = "returned" => NoDuplicates(cv_data.hobbies)

(***************************************************************************)
(* C8: when the text holds "Python" in the labeled skills section and      *)
(* "PYTHON" elsewhere, the skills list has exactly one entry for python,   *)
(* spelled as its first occurrence in the text.                            *)
(***************************************************************************)
FirstIndex(s, c) == Min({i \in DOMAIN s : s[i] = c})

C8_OneEntryPerKeyword ==
    /\ pc = "returned"
    /\ InList(<<"Python">>, ListedSkills(cleaned))
    /\ HasLexeme(cleaned, "PYTHON")
    => LET entries == {i \in DOMAIN cv_data.skills :
                          LowerStr(cv_data.skills[i]) = <<"python">>}
           first   == IF FirstIndex(cleaned, "Python") < FirstIndex(cleaned, "PYTHON")
                      THEN <<"Python">> ELSE <<"PYTHON">>
       IN  /\ Cardinality(entries) = 1
           /\ \A i \in entries : cv_data.skills[i] = first

(***************************************************************************)
(* C9: a text whose only education marker is one line holding the degree   *)
(* keyword and a four-digit year.                                          *)
(***************************************************************************)
LinesOfCleaned == Split(cleaned, "\n")

\* The line of the text that is its only education marker and holds a year, or 0.
MarkerLine ==
    LET lines   == LinesOfCleaned
        markers == {k \in DOMAIN lines : IsEducationStart(lines[k])}
    IN  IF Cardinality(markers) = 1 /\ \A k \in markers : HasYear(lines[k])
        THEN Min(markers) ELSE 0

\* C9 as stated: the education list has an entry whose year field contains
\* the year of that line.
C9_YearFieldHoldsYear ==
    pc = "returned" /\ fault = "none" /\ MarkerLine # 0 =>
        \E i \in DOMAIN cv_data.education :
            \E d \in DOMAIN LinesOfCleaned[MarkerLine] :
                /\ DigitsOfLen(LinesOfCleaned[MarkerLine][d], 4, 4)
                /\ HasLexeme(cv_data.education[i].year, LinesOfCleaned[MarkerLine][d])

\* C9 amended: the education list is the one entry of that line; its degree
\* field is the whole line, year included, and its year field is a later
\* line holding a four-digit run, or empty when the entry took no such line.
C9_DegreeFieldHoldsYear ==
    pc = "returned" /\ fault = "none" /\ MarkerLine # 0 =>
        LET lines == LinesOfCleaned
            k     == MarkerLine
        IN  /\ Len(cv_data.education) = 1
            /\ cv_data.education[1].degree = Strip(lines[k])
            /\ HasYear(cv_data.education[1].degree)
            /\ \/ cv_data.education[1].year = <<>>
               \/ \E l \in (k + 1)..Len(lines) :
                      HasYear(lines[l]) /\ cv_data.education[1].year = Strip(lines[l])
            /\ (\A l \in (k + 1)..Len(lines) : ~HasYear(lines[l]))
                   => cv_data.education[1].year = <<>>

\* The marker line stands alone after a line that is no marker: its year
\* went to the degree field and the year field stayed empty.
C9_Witness ==
    /\ pc = "returned"
    /\ fault = "none"
    /\ MarkerLine = 2
    /\ Len(LinesOfCleaned) = 2
    /\ Len(cv_data.education) = 1
    /\ HasLexeme(cv_data.education[1].degree, "2019")
    /\ cv_data.education[1].year = <<>>

(***************************************************************************)
(* C10: for the empty input the call returns every field empty: the two    *)
(* mappings and the two strings empty, every list empty, text_length 0     *)
(* and confidence_score 0.0 (unless the scoring itself faults, C3).        *)
(***************************************************************************)
C10_EmptyInput ==
    text = <<>> /\ fault # "confidence_score" =>
        /\ pc # "raised"
        /\ pc = "returned" =>
            /\ cleaned = <<>>
            /\ \A k \in Fields : cv_data[k] = DefaultOf(k)
            /\ cv_data.extraction_metadata.text_length = 0
            /\ cv_data.extraction_metadata.confidence_score = 0

C10_Witness ==
    /\ pc = "returned"
    /\ text = <<>>
    /\ fault = "none"
    /\ cv_data.skills = <<>>
    /\ cv_data.extraction_metadata.confidence_score = 0

(***************************************************************************)
(* Documents with long skills sections.                                    *)
(***************************************************************************)
MaxItems == 22      \* most items of a skills section

SkillWords == <<"SQL", "Java", "Python">>

\* "Skills:" followed by n comma-separated items.
ManySkills(n) ==
    <<"Skills", ":", " ">>
        \o Join([i \in 1..n |-> <<SkillWords[(i % 3) + 1]>>], ",")

SkillsBank ==
    { ManySkills(MaxItems),
      ManySkills(MaxItems - 4),
      <<"Skills", ":", " ", "Python", ",", " ", "SQL">>,
      <<"Jean", " ", "PYTHON">>,
      <<"python">> }

InitSkills ==
    /\ text \in Documents(SkillsBank)
    /\ fault \in {"none", "skills"}
    /\ possessive \in BOOLEAN
    /\ pc = "ready"
    /\ cleaned = <<>>
    /\ recleaned = <<>>
    /\ cv_data = NoData
    /\ ServiceIdle

SpecSkills == InitSkills /\ [][Next]_vars

(***************************************************************************)
(* C11: the skills list of a returned result has at most 20 elements.      *)
(***************************************************************************)
C11_SkillsAtMostTwenty ==
    pc = "returned" => Len(cv_data.skills) <= 20

\* A skills section of more than 20 items was read and 20 skills came back.
C11_Witness ==
    /\ pc = "returned"
    /\ fault = "none"
    /\ possessive
    /\ Len(ListedSkills(cleaned)) > 20
    /\ Len(cv_data.skills) = 20

(***************************************************************************)
(* Documents long enough for the length signals of the confidence score.   *)
(***************************************************************************)
FillerWord == "237699112233"

\* Copies of the filler word, each followed by a space, that pass n characters.
FillerCopies(n) == n \div (LexLen(FillerWord) + 1) + 1

Filler(copies) == Join([i \in 1..copies |-> <<FillerWord>>], " ")

\* The same length made of a word that gives no signal.
PlainWord == "Developer"

PlainFiller(n) == Join([i \in 1..(n \div (LexLen(PlainWord) + 1) + 1) |-> <<PlainWord>>], " ")

ScoreBank ==
    { Filler(FillerCopies(VeryLongText)),
      Filler(FillerCopies(LongText)),
      PlainFiller(LongText),
      <<"Education", " ", "Skills", " ", "2019", " ", "jean", "@", "example", ".", "com">>,
      <<"Skills", " ", "2019">>,
      <<"jean", "@", "example", ".", "com">>,
      <<"Education">> }

InitScore ==
    /\ text \in Documents(ScoreBank)
    /\ fault \in {"none", "confidence_score"}
    /\ possessive \in BOOLEAN
    /\ pc = "ready"
    /\ cleaned = <<>>
    /\ recleaned = <<>>
    /\ cv_data = NoData
    /\ ServiceIdle

SpecScore == InitScore /\ [][Next]_vars

(***************************************************************************)
(* C12: the confidence score of a returned result lies in [0, 1], here     *)
(* 0..100 hundredths, whether the scoring ran to its end or faulted.       *)
(***************************************************************************)
C12_ScoreInUnitInterval ==
    pc = "returned" =>
        /\ cv_data.extraction_metadata.confidence_score >= 0
        /\ cv_data.extraction_metadata.confidence_score <= 100

\* A text of more than 1000 characters with every signal present scored 1.0.
C12_Witness ==
    /\ pc = "returned"
    /\ fault = "none"
    /\ StrLen(cleaned) > 1000
    /\ EmailMatch(cleaned).found
    /\ cv_data.extraction_metadata.confidence_score = 100

(***************************************************************************)
(* C13: the normalizer's output holds no character of the control class    *)
(* that line 78 removes.                                                   *)
(***************************************************************************)
C13_NoControlCharacter ==
    pc \in {"cleaned", "recleaned"} =>
        \A i \in DOMAIN cleaned : cleaned[i] # "\f"

\* A control character stood between two letters and is gone.
C13_Witness ==
    /\ pc = "cleaned"
    /\ \E i \in 2..(Len(text) - 1) :
           text[i] = "\f" /\ text[i - 1] = "a" /\ text[i + 1] = "a"
    /\ cleaned # <<>>
    /\ \A i \in DOMAIN cleaned : cleaned[i] # "\f"

(***************************************************************************)
(* Raw texts and, beside them, two paragraphs with a gap of newlines,      *)
(* spaces and tabs between them.                                           *)
(***************************************************************************)
MaxGap == 6         \* longest gap between the two paragraphs

GapChars == {"\n", " ", "\t"}

Paragraphs == {<<"a">> \o gap \o <<"a">> : gap \in SeqsUpTo(GapChars, MaxGap)}

InitParagraphs ==
    /\ text \in RawTexts \cup Paragraphs
    /\ fault = "none"
    /\ possessive = TRUE
    /\ pc = "ready"
    /\ cleaned = <<>>
    /\ recleaned = <<>>
    /\ cv_data = NoData
    /\ ServiceIdle

SpecParagraphs == InitParagraphs /\ [][NextClean]_vars

\* s holds n copies of c in a row.
HasRun(s, c, n) ==
    \E i \in 1..(Len(s) - n + 1) : \A k \in i..(i + n - 1) : s[k] = c

EdgesClear(s) == s = <<>> \/ (~IsSpace(s[1]) /\ ~IsSpace(s[Len(s)]))

(***************************************************************************)
(* C14: the normalizer's output has no leading or trailing whitespace, no  *)
(* run of two or more spaces, and, split at newlines, no empty line and no *)
(* line with leading or trailing whitespace (an empty output has no line); *)
(* so no two lines of it are separated by more than one blank line.        *)
(***************************************************************************)
C14_LinesAreTrimmed ==
    pc \in {"cleaned", "recleaned"} =>
        /\ EdgesClear(cleaned)
        /\ ~HasRun(cleaned, " ", 2)
        /\ ~HasRun(cleaned, "\n", 3)
        /\ cleaned # <<>> =>
               \A l \in DOMAIN Split(cleaned, "\n") :
                   /\ Split(cleaned, "\n")[l] # <<>>
                   /\ EdgesClear(Split(cleaned, "\n")[l])

\* Two paragraphs with five blank lines between them came out as two lines.
C14_Witness ==
    /\ pc = "cleaned"
    /\ text = <<"a", "\n", "\n", "\n", "\n", "\n", "\n", "a">>
    /\ cleaned = <<"a", "\n", "a">>

(***************************************************************************)
(* The normalizer with a fault in one of its statements.                   *)
(***************************************************************************)
InitCleanFault ==
    /\ text \in RawTexts
    /\ fault \in {"none"} \cup CleanFaults
    /\ possessive = TRUE
    /\ pc = "ready"
    /\ cleaned = <<>>
    /\ recleaned = <<>>
    /\ cv_data = NoData
    /\ ServiceIdle

\* _clean_text_improved, lines 71-101, the except branch included.
CleanFaulted ==
    /\ pc = "ready"
    /\ cleaned' = CleanText(text, fault)
    /\ pc' = "cleaned"
    /\ UNCHANGED <<text, fault, possessive, recleaned, cv_data, patterns, handlers, outputs, uploads, cleanup>>

SpecCleanFault == InitCleanFault /\ [][CleanFaulted]_vars

(***************************************************************************)
(* C15: the normalizer always returns; the empty input gives the empty     *)
(* string, and when a cleaning step faults the result is the input with    *)
(* only its leading and trailing whitespace removed.                       *)
(***************************************************************************)
C15_FallbackIsTrimmedInput ==
    /\ pc # "raised"
    /\ pc = "cleaned" =>
        /\ text = <<>> => cleaned = <<>>
        /\ fault \in CleanFaults => cleaned = Strip(text)

(***************************************************************************)
(* The API of main.py: requests to /process-cv and /process-cv-from-path   *)
(* handled side by side on the one extractor of line 51.                   *)
(***************************************************************************)
\* What each routine reads of self.patterns (lines 147-180, 349, 396, 416,
\* 461, 492-494); a key that is not there raises KeyError inside the routine.
PatternReads ==
    [ contact_info     |-> {"email", "linkedin", "github", "website"},
      skills           |-> {"skills"},
      languages        |-> {"languages"},
      certifications   |-> {"certifications"},
      hobbies          |-> {"hobbies"},
      confidence_score |-> {"email", "phone"} ]

MissingReads(pats) == {r \in DOMAIN PatternReads : ~(PatternReads[r] \subseteq pats)}

\* ai_extractor_improved.py lines 33-69, as it would be with the pattern of
\* the e-mail address dropped from the table by the call
PatternsAfterCallDropEmailMutant(pats) == pats \ {"email"}

\* ai_extractor_improved.py lines 33-69 and the routines they call: no
\* statement binds self.patterns or one of its entries.
PatternsAfterCall(pats) == pats

Endpoints == {"process-cv", "process-cv-from-path"}

\* cv_processor_simple.py lines 50-82: the pages that gave text, joined
extract_with_pypdf2(f) == Join(SelectSeq(f.pages, NonEmpty), "\n")

\* cv_processor_simple.py lines 94-118 without the strip of lines 110-113
clean_extracted_textNoStripMutant(s) ==
    IF s = <<>> THEN <<>>
    ELSE Strip(Join(Split(CollapseBlankLines(CollapseSpaces(RemoveControl(s))), "\n"), "\n"))

\* cv_processor_simple.py lines 94-118, in the order of that source
clean_extracted_text(s) ==
    IF s = <<>> THEN <<>>
    ELSE Strip(Join(CleanedLines(CollapseBlankLines(CollapseSpaces(RemoveControl(s)))), "\n"))

\* cv_processor_simple.py lines 34-44
extract_text_from_pdf(f) ==
    IF Strip(extract_with_pypdf2(f)) = <<>> THEN <<>>
    ELSE clean_extracted_text(extract_with_pypdf2(f))

\* utils/file_handler.py lines 10-247: the methods of FileHandler
FileHandlerMethods ==
    { "save_uploaded_file", "delete_file", "move_file", "copy_file",
      "get_file_info", "list_directory", "create_directory", "cleanup_old_files" }

\* datetime.now().strftime("%Y%m%d_%H%M%S") of two calls
Timestamps == {"20250101_120000", "20250101_120001"}

\* main.py lines 152 and 203
OutputName(timestamp) == <<"cv_extracted_", timestamp, ".json">>

\* The status of the response to an HTTPException raised inside the handler:
\* lines 174-175 hand it on, lines 225-227 wrap it like any other exception.
StatusRaised(endpoint, code) == IF endpoint = "process-cv" THEN code ELSE 500

Respond(rec, code) == [rec EXCEPT !.pc = "done", !.status = code]

\* The paths a request can name: those of Files and whatever is in uploads.
RequestPaths == {f.path : f \in Files} \cup DOMAIN uploads

\* A request arrives (lines 126, 181).
Receive(h) ==
    /\ handlers[h].pc = "idle"
    /\ \E e \in Endpoints, p \in RequestPaths :
           handlers' = [handlers EXCEPT ![h].pc = "received",
                                        ![h].endpoint = e,
                                        ![h].path = p]
    /\ UNCHANGED <<text, fault, possessive, pc, cleaned, recleaned, cv_data, patterns, outputs, uploads, cleanup>>

\* cv_processor_simple.py lines 55-56: open() raises on a directory, PdfReader
\* on what is no PDF.
Readable(entry) == entry.kind = "file" /\ entry.parses

\* main.py lines 134-145 and 189-196.
ObtainText(h) ==
    /\ handlers[h].pc = "received"
    /\ LET rec == handlers[h]
       IN  handlers' = [handlers EXCEPT ![h] =
               IF rec.path \notin DOMAIN uploads
               THEN Respond(rec, StatusRaised(rec.endpoint, 404))
               ELSE IF rec.endpoint = "process-cv" /\ uploads[rec.path].suffix # ".pdf"
                    THEN Respond(rec, 400)
               ELSE IF ~Readable(uploads[rec.path]) THEN Respond(rec, 500)
               ELSE IF extract_text_from_pdf(uploads[rec.path]) = <<>>
                    THEN Respond(rec, StatusRaised(rec.endpoint, 400))
               ELSE [rec EXCEPT !.pc = "text",
                                !.text = extract_text_from_pdf(uploads[rec.path])]]
    /\ UNCHANGED <<text, fault, possessive, pc, cleaned, recleaned, cv_data, patterns, outputs, uploads, cleanup>>

\* ai_extractor_improved.py line 38, called from main.py lines 148 and 199.
CleanCall(h) ==
    /\ handlers[h].pc = "text"
    /\ handlers' = [handlers EXCEPT ![h].pc = "cleaned",
                                    ![h].cleaned = CleanText(handlers[h].text, "none")]
    /\ UNCHANGED <<text, fault, possessive, pc, cleaned, recleaned, cv_data, patterns, outputs, uploads, cleanup>>

\* ai_extractor_improved.py lines 41-65: the routines read the pattern table
\* of the shared extractor as it is when they run.
ExtractCall(h) ==
    /\ handlers[h].pc = "cleaned"
    /\ handlers' = [handlers EXCEPT ![h].pc = "extracted",
                                    ![h].cv_info = Assemble(handlers[h].cleaned,
                                                            MissingReads(patterns), possessive)]
    /\ patterns' = PatternsAfterCall(patterns)
    /\ UNCHANGED <<text, fault, possessive, pc, cleaned, recleaned, cv_data, outputs, uploads, cleanup>>

\* main.py lines 151-178 and 202-227: the output name is made from the time
\* of the call, then file_handler.save_json_result is looked up; FileHandler
\* has no such method, the AttributeError is answered by 500.
SaveResult(h) ==
    /\ handlers[h].pc = "extracted"
    /\ \E t \in Timestamps :
           IF "save_json_result" \in FileHandlerMethods
           THEN /\ outputs' = (OutputName(t) :> handlers[h].cv_info) @@ outputs
                /\ handlers' = [handlers EXCEPT ![h].pc = "done",
                                                ![h].status = 200,
                                                ![h].output_file = OutputName(t),
                                                ![h].output_path = OutputName(t)]
           ELSE /\ outputs' = outputs
                /\ handlers' = [handlers EXCEPT ![h] =
                       Respond([handlers[h] EXCEPT !.output_path = OutputName(t)], 500)]
    /\ UNCHANGED <<text, fault, possessive, pc, cleaned, recleaned, cv_data, patterns, uploads, cleanup>>

InitService ==
    /\ text = <<>>
    /\ fault = "none"
    /\ possessive \in BOOLEAN
    /\ pc = "serving"
    /\ cleaned = <<>>
    /\ recleaned = <<>>
    /\ cv_data = NoData
    /\ ServiceIdle

NextService ==
    \E h \in Handlers :
        \/ Receive(h)
        \/ ObtainText(h)
        \/ CleanCall(h)
        \/ ExtractCall(h)
        \/ SaveResult(h)

SpecService == InitService /\ [][NextService]_vars

\* The texts of the documents that are stored when the service starts.
StoredTexts ==
    { extract_text_from_pdf(StoredUploads[p]) :
          p \in {q \in DOMAIN StoredUploads : Readable(StoredUploads[q])} }

\* What a call returns for each of them when no other call is in progress.
StoredCallsInIsolation ==
    [t \in StoredTexts |-> [b \in BOOLEAN |-> CvData(t, "none", b)]]

CallInIsolation(t, b) ==
    IF t \in StoredTexts THEN StoredCallsInIsolation[t][b] ELSE CvData(t, "none", b)

(***************************************************************************)
(* C16: a call leaves the pattern table of the shared extractor as it was, *)
(* and whatever the other handlers do meanwhile, the mapping a call        *)
(* returns is the one the call returns for its text in isolation.          *)
(***************************************************************************)
C16_CallsAreIndependent ==
    /\ patterns = PatternNames
    /\ \A h \in Handlers :
           handlers[h].cv_info # NoData =>
               handlers[h].cv_info = CallInIsolation(handlers[h].text, possessive)

\* A call returned the e-mail address of its document while the call of
\* another handler, for another document, was between its two steps.
C16_Witness ==
    \E h, g \in Handlers :
        /\ handlers[h].pc = "extracted"
        /\ HasKey(handlers[h].cv_info.contact_info, "email")
        /\ handlers[g].pc = "cleaned"
        /\ handlers[g].text # handlers[h].text

(***************************************************************************)
(* C17: a request for a file that exists and gives text ends in success:   *)
(* the mapping is stored in the outputs directory under the name the       *)
(* response gives; a request ends in failure only when no text was had.    *)
(***************************************************************************)
C17_TextEndsInSuccess ==
    \A h \in Handlers :
        handlers[h].pc = "done" /\ handlers[h].text # <<>> =>
            /\ handlers[h].status = 200
            /\ handlers[h].output_file \in DOMAIN outputs
            /\ outputs[handlers[h].output_file] = handlers[h].cv_info

(***************************************************************************)
(* Documents made of blocks of experience lines: start lines by keyword    *)
(* and by employer name, detail lines short and long, with and without a   *)
(* year.                                                                   *)
(***************************************************************************)
\* 99 characters, digits among them
Line99 ==
    Filler(6) \o <<" ", "0612345678", " ", "0612345678">>

\* 100 characters, digits among them
Line100 ==
    Filler(6) \o <<" ", "33612345678", " ", "0612345678">>

\* more than 100 characters, no digit
LongWords ==
    Join([i \in 1..(CompanyMaxLen \div (LexLen("Science") + 1) + 1) |-> <<"Science">>], " ")

ExperienceBank ==
    { <<"Jean", " ", "Dupont">>,
      <<"Developer">>,
      <<"Jean", " ", "Dupont", "\n", "ENSPD", " ", "Douala", "\n", "Acme">>,
      <<"Bachelor", " ", "Developer">>,
      <<"Bachelor", " ", "Developer", "\n", "Acme", "\n", "2019", "\n", "Python">>,
      <<"2019", "\n", "Acme", "\n", "Python">>,
      Line100 \o <<"\n", "Douala">>,
      LongWords \o <<"\n", "Acme">>,
      <<"Developer", "\n">> \o Line99 \o <<"\n", "2019", "\n", "Python", "\n", "Java">> }

InitExperience ==
    /\ text \in Documents(ExperienceBank)
    /\ fault \in {"none", "work_experience"}
    /\ possessive = TRUE
    /\ pc = "ready"
    /\ cleaned = <<>>
    /\ recleaned = <<>>
    /\ cv_data = NoData
    /\ ServiceIdle

SpecExperience == InitExperience /\ [][Next]_vars

\* The lines of the cleaned text that start an experience entry, in order.
ExperienceStarts == SelectSeq(LinesOfCleaned, IsExperienceStart)

(***************************************************************************)
(* C18: the work-experience list has exactly one entry per start line, in  *)
(* the order of the start lines, each entry's title being its start line   *)
(* stripped; so every entry was appended, the last one at the end of text. *)
(***************************************************************************)
C18_OneEntryPerStartLine ==
    pc = "returned" /\ fault # "work_experience" =>
        /\ Len(cv_data.work_experience) = Len(ExperienceStarts)
        /\ \A k \in DOMAIN ExperienceStarts :
               cv_data.work_experience[k].title = Strip(ExperienceStarts[k])

\* Lines before the first start line, then two start lines, the first one
\* by employer name with detail lines after it: two entries in that order.
C18_Witness ==
    /\ pc = "returned"
    /\ fault = "none"
    /\ Len(LinesOfCleaned) >= 4
    /\ ~IsExperienceStart(LinesOfCleaned[1])
    /\ Len(cv_data.work_experience) = 2
    /\ cv_data.work_experience[1].title = <<"ENSPD", " ", "Douala">>
    /\ cv_data.work_experience[1].company # <<>>
    /\ cv_data.work_experience[2].title = <<"Developer">>

\* The indices of the start lines of the cleaned text.
StartIndicesOf(lines) == {i \in DOMAIN lines : IsExperienceStart(lines[i])}

StartIndices == StartIndicesOf(LinesOfCleaned)

\* The indices of the lines between start line s and the next start line.
DetailsOf(lines, starts, s) ==
    {i \in (s + 1)..Len(lines) : \A j \in (s + 1)..i : j \notin starts}

\* The smallest index of I, or 0 for the empty set.
FirstOf(I) == IF I = {} THEN 0 ELSE Min(I)

\* The detail line that is the company of the entry of s: the first one
\* shorter than 100 characters.
CompanyLine(lines, details) ==
    FirstOf({i \in details : StrLen(lines[i]) < 100})

\* The detail line that is its period: the first one with four digits in a
\* row that is not the company.
PeriodLine(lines, details, company) ==
    FirstOf({i \in details :
                i # company /\ \E d \in DOMAIN lines[i] :
                    IsDigits(lines[i][d]) /\ LexLen(lines[i][d]) >= 4})

LineOrEmpty(lines, i) == IF i = 0 THEN <<>> ELSE lines[i]

\* The lines of the index set I in the order of the text.
RECURSIVE LinesAt(_, _)
LinesAt(lines, I) ==
    IF I = {} THEN <<>>
    ELSE <<lines[Min(I)]>> \o LinesAt(lines, I \ {Min(I)})

\* The number of start lines up to line s.
RankOf(starts, s) == Cardinality({i \in starts : i <= s})

\* The entry holds the detail lines, each in its slot.
SlotsHold(entry, lines, details, company, period) ==
    /\ entry.company = LineOrEmpty(lines, company)
    /\ entry.period = LineOrEmpty(lines, period)
    /\ entry.description = LinesAt(lines, details \ {company, period})

EntryHolds(entry, lines, details, company) ==
    SlotsHold(entry, lines, details, company, PeriodLine(lines, details, company))

EntryOfStart(entries, lines, starts, s) ==
    EntryHolds(entries[RankOf(starts, s)], lines, DetailsOf(lines, starts, s),
               CompanyLine(lines, DetailsOf(lines, starts, s)))

EntriesHold(entries, lines, starts) ==
    /\ Len(entries) = Cardinality(starts)
    /\ \A s \in starts : EntryOfStart(entries, lines, starts, s)

(***************************************************************************)
(* C19: every line after a start line that is no start line itself sits in *)
(* exactly one slot of the entry of the last start line before it: the     *)
(* first such line shorter than 100 characters is the company, the first   *)
(* other one with four digits in a row is the period, the rest is the      *)
(* description in the order of the text; lines before the first start line *)
(* are in no entry.                                                        *)
(***************************************************************************)
C19_EachLineInOneSlot ==
    pc = "returned" /\ fault # "work_experience" =>
        EntriesHold(cv_data.work_experience, LinesOfCleaned, StartIndicesOf(LinesOfCleaned))

\* A line before the start line, then the start line and four detail lines:
\* the first is the company, the second the period, the last two the description.
C19_Witness ==
    /\ pc = "returned"
    /\ fault = "none"
    /\ Len(LinesOfCleaned) = 6
    /\ StartIndices = {2}
    /\ cv_data.work_experience[1].company = Line99
    /\ cv_data.work_experience[1].period = <<"2019">>
    /\ cv_data.work_experience[1].description = << <<"Python">>, <<"Java">> >>

\* An experience list with its fields renamed to those of an education list.
Renamed(entries) ==
    [k \in DOMAIN entries |->
        [ degree      |-> entries[k].title,
          institution |-> entries[k].company,
          year        |-> entries[k].period,
          description |-> entries[k].description ]]

\* The two start tests say the same of every line of the cleaned text.
SameStartLines ==
    \A i \in DOMAIN LinesOfCleaned :
        IsEducationStart(LinesOfCleaned[i]) <=> IsExperienceStart(LinesOfCleaned[i])

(***************************************************************************)
(* C20: on a text whose lines the education start test and the experience  *)
(* start test tell apart alike, the education list is the experience list  *)
(* with title, company, period and description renamed to degree,          *)
(* institution, year and description.                                      *)
(***************************************************************************)
C20_SameStateMachine ==
    pc = "returned" /\ fault = "none" /\ SameStartLines =>
        cv_data.education = Renamed(cv_data.work_experience)

\* Two start lines of both kinds, the first with three detail lines: two
\* entries in each list, the first with every slot filled.
C20_Witness ==
    /\ pc = "returned"
    /\ fault = "none"
    /\ SameStartLines
    /\ Len(cv_data.education) = 2
    /\ cv_data.education[1].institution = <<"Acme">>
    /\ cv_data.education[1].year = <<"2019">>
    /\ cv_data.education[1].description = << <<"Python">> >>
    /\ cv_data.work_experience[1].company = <<"Acme">>

(***************************************************************************)
(* The seven signals of the confidence score and their weights, in         *)
(* hundredths.                                                             *)
(***************************************************************************)
SignalWeights ==
    [ long |-> 20, very_long |-> 20, email |-> 15, phone |-> 15,
      year |-> 10, skills |-> 10, education |-> 10 ]

SignalNames == DOMAIN SignalWeights

SignalPresent(k, s) ==
    CASE k = "long" -> StrLen(s) > 500
      [] k = "very_long" -> StrLen(s) > 1000
      [] k = "email" -> EmailMatch(s).found
      [] k = "phone" -> ScorePhoneFound(s)
      [] k = "year" -> ScoreYearFound(s)
      [] k = "skills" -> ExactWordFound(s, {"Compétence", "Compétences", "Skill", "Skills"})
      [] k = "education" -> ExactWordFound(s, {"Education", "Formation"})

SignalsOf(s) == {k \in SignalNames : SignalPresent(k, s)}

RECURSIVE WeightSum(_)
WeightSum(S) ==
    IF S = {} THEN 0
    ELSE LET k == CHOOSE x \in S : TRUE IN SignalWeights[k] + WeightSum(S \ {k})

Clamped(n) == IF n > 100 THEN 100 ELSE n

ScoreIsWeightSum(score, present) ==
    /\ score = Clamped(WeightSum(present))
    /\ score = 100 <=> present = SignalNames
    /\ score = 0 <=> present = {}

(***************************************************************************)
(* C21: the confidence score of a scoring that ran to its end is the sum   *)
(* of the weights of the signals present in the scored text, clamped to    *)
(* 1.0; it is 1.0 exactly when all seven signals are present and 0.0       *)
(* exactly when none is.                                                   *)
(***************************************************************************)
C21_ScoreIsSumOfWeights ==
    pc = "returned" /\ fault = "none" =>
        ScoreIsWeightSum(cv_data.extraction_metadata.confidence_score, SignalsOf(cleaned))

\* A text of more than 500 characters without a phone number that holds the
\* email, year, skills and education signals: five of the seven weights.
C21_Witness ==
    /\ pc = "returned"
    /\ fault = "none"
    /\ SignalsOf(cleaned) = SignalNames \ {"very_long", "phone"}
    /\ cv_data.extraction_metadata.confidence_score = 65

(***************************************************************************)
(* Documents for the header fallback of _extract_personal_info: lines that *)
(* no name pattern matches, with and without a digit, '@' or '+', short    *)
(* lines, runs of four and five short lines, and one line that is a name.  *)
(***************************************************************************)
HeaderBank ==
    { <<"piano", " ", "2019">>,
      <<"piano", " ", "python">>,
      <<"jean">>,
      <<"jean", "@", "example", ".", "com">>,
      <<"piano", " ", "+", " ", "java">>,
      <<"Developer">>,
      <<"jean", "\n", "sql", "\n", "jean", "\n", "sql">>,
      <<"jean", "\n", "sql", "\n", "jean", "\n", "sql", "\n", "java">>,
      <<"Jean", " ", "Dupont">> }

InitHeader ==
    /\ text \in Documents(HeaderBank)
    /\ fault \in {"none", "personal_info"}
    /\ possessive = TRUE
    /\ pc = "ready"
    /\ cleaned = <<>>
    /\ recleaned = <<>>
    /\ cv_data = NoData
    /\ ServiceIdle

SpecHeader == InitHeader /\ [][Next]_vars

\* The first five lines of the text given to the extractors.
HeaderLines == [i \in 1..Min({5, Len(LinesOfCleaned)}) |-> Strip(LinesOfCleaned[i])]

LongerThanFive(line) == StrLen(line) > 5

NoAtNoPlus(line) == \A i \in DOMAIN line : line[i] \notin {"@", "+"}

NoDigit(line) == \A i \in DOMAIN line : line[i] \notin DigitWords

\* personal_info holds the first line of `lines` whose index is in
\* `eligible` as full_name, and has no full_name when there is none.
NameIsFirstOf(info, lines, eligible) ==
    IF eligible = {} THEN "full_name" \notin DOMAIN info
    ELSE /\ "full_name" \in DOMAIN info
         /\ info.full_name = lines[Min(eligible)]

NoPatternName == pc = "returned" /\ fault = "none" /\ PatternName(cleaned) = <<>>

(***************************************************************************)
(* C22 as stated: when no name pattern yields an accepted name, full_name  *)
(* is the first of the first five lines that is longer than 5 characters   *)
(* and holds neither '@' nor '+', and is absent when there is none.        *)
(***************************************************************************)
C22_FirstHeaderLineAsStated ==
    NoPatternName =>
        NameIsFirstOf(cv_data.personal_info, HeaderLines,
            {i \in DOMAIN HeaderLines :
                LongerThanFive(HeaderLines[i]) /\ NoAtNoPlus(HeaderLines[i])})

(***************************************************************************)
(* C22 amended: when no name pattern yields an accepted name, full_name is *)
(* the first of the first five lines that is longer than 5 characters and  *)
(* holds no digit, no '@' and no '+', and is absent when there is none.    *)
(***************************************************************************)
C22_FirstHeaderLineWithoutDigit ==
    NoPatternName =>
        NameIsFirstOf(cv_data.personal_info, HeaderLines,
            {i \in DOMAIN HeaderLines :
                /\ LongerThanFive(HeaderLines[i])
                /\ NoDigit(HeaderLines[i])
                /\ NoAtNoPlus(HeaderLines[i])})

\* A line with a digit comes first and is passed over for the second line.
C22_Witness ==
    /\ NoPatternName
    /\ Len(HeaderLines) = 2
    /\ LongerThanFive(HeaderLines[1]) /\ NoAtNoPlus(HeaderLines[1]) /\ ~NoDigit(HeaderLines[1])
    /\ cv_data.personal_info = [full_name |-> HeaderLines[2]]

(***************************************************************************)
(* Documents for _extract_contact_info: a number for each of the phone     *)
(* patterns of lines 153-157, a labeled number that is too short, an       *)
(* email address and the three kinds of URL.                               *)
(***************************************************************************)
ContactBank ==
    { <<"+", "237699112233">>,
      <<"237", " ", "699112233">>,
      <<"+", "33612345678">>,
      <<"0612345678">>,
      <<"Phone", ":", " ", "2019">>,
      <<"Phone", ":", " ", "699112233">>,
      <<"jean", "@", "example", ".", "com">>,
      <<"https", ":", "/", "/", "linkedin", ".", "com", "/", "in", "/", "jean">>,
      <<"github", ".", "com", "/", "jean">>,
      <<"www", ".", "example", ".", "com">> }

InitContact ==
    /\ text \in Documents(ContactBank)
    /\ fault \in {"none", "contact_info"}
    /\ possessive = TRUE
    /\ pc = "ready"
    /\ cleaned = <<>>
    /\ recleaned = <<>>
    /\ cv_data = NoData
    /\ ServiceIdle

SpecContact == InitContact /\ [][Next]_vars

\* The first match of each phone pattern, in the order of lines 153-158.
PhoneMatches(s) ==
    << PhonePattern1(s), PhonePattern2(s), PhonePattern3(s),
       PhonePattern4(s), PhonePattern5(s), PhonePattern6(s) >>

\* The patterns whose first match, trimmed, has at least 8 characters.
LongEnough(matches) ==
    {k \in DOMAIN matches : matches[k].found /\ StrLen(Strip(matches[k].group)) >= 8}

PhoneIsFirstLongMatch(info, matches, long) ==
    IF long = {} THEN "phone" \notin DOMAIN info
    ELSE /\ "phone" \in DOMAIN info
         /\ info.phone = Strip(matches[Min(long)].group)
         /\ StrLen(info.phone) >= 8

PresentIffMatched(info, key, match) ==
    /\ key \in DOMAIN info <=> match.found
    /\ match.found => info[key] = match.group

(***************************************************************************)
(* C23: the phone field is the trimmed first match of the first phone      *)
(* pattern, in the order of the list, whose trimmed first match has at     *)
(* least 8 characters, so it has at least 8 characters when present, and   *)
(* it is absent when no pattern has such a match; email, linkedin, github  *)
(* and website are each present exactly when their own pattern matches.    *)
(***************************************************************************)
C23_PhoneByPriority ==
    pc = "returned" /\ fault = "none" =>
        /\ PhoneIsFirstLongMatch(cv_data.contact_info, PhoneMatches(cleaned),
                                 LongEnough(PhoneMatches(cleaned)))
        /\ PresentIffMatched(cv_data.contact_info, "email", EmailMatch(cleaned))
        /\ PresentIffMatched(cv_data.contact_info, "linkedin", LinkedinMatch(cleaned))
        /\ PresentIffMatched(cv_data.contact_info, "github", GithubMatch(cleaned))
        /\ PresentIffMatched(cv_data.contact_info, "website", WebsiteMatch(cleaned))

\* The labeled number comes first in the text and is long enough, yet the
\* number of the earlier pattern is the phone; the text holds no URL.
C23_Witness ==
    /\ pc = "returned"
    /\ fault = "none"
    /\ LongEnough(PhoneMatches(cleaned)) = {1, 2, 5}
    /\ PhoneMatches(cleaned)[5].first < PhoneMatches(cleaned)[1].first
    /\ cv_data.contact_info = [phone |-> <<"+", "237699112233">>]

(***************************************************************************)
(* Documents for _extract_address: place names alone and with more on the  *)
(* line, labeled addresses long and short, a line that is no address.      *)
(***************************************************************************)
AddressBank ==
    { <<"Yassa">>,
      <<"Douala">>,
      <<"Douala", " ", "Acme">>,
      <<"jean">>,
      <<"Address", ":", " ", "Acme">>,
      <<"Address", ":", " ", "Jean", " ", "Dupont">>,
      <<"City", ":", " ", "Yassa">> }

InitAddress ==
    /\ text \in Documents(AddressBank)
    /\ fault \in {"none", "address"}
    /\ possessive = TRUE
    /\ pc = "ready"
    /\ cleaned = <<>>
    /\ recleaned = <<>>
    /\ cv_data = NoData
    /\ ServiceIdle

SpecAddress == InitAddress /\ [][Next]_vars

\* The candidates in the order the routine looks at them, trimmed: the
\* matches of the three patterns of lines 195-197, then the window of lines
\* 209-216; <<>> stands for a candidate that does not exist.
GroupOf(m) == IF m.found THEN Strip(m.group) ELSE <<>>

AddressCandidates(s) ==
    << GroupOf(SearchLabeled(s, AddressLabels, NotDotNewline)),
       GroupOf(PlaceMatch(s)),
       GroupOf(SearchLabeled(s, CityLabels, NotDotNewline)),
       NearbyAddress(s) >>

LongCandidates(candidates) == {k \in DOMAIN candidates : StrLen(candidates[k]) > 5}

FirstLongCandidate(address, candidates, long) ==
    /\ address = IF long = {} THEN <<>> ELSE candidates[Min(long)]
    /\ address = <<>> \/ StrLen(address) > 5

(***************************************************************************)
(* C24: the address is the first candidate, in the order labeled pattern,  *)
(* known-location pattern, keyword window, that is longer than 5           *)
(* characters once trimmed, and the empty string when there is none; so it *)
(* is empty or longer than 5 characters.                                   *)
(***************************************************************************)
C24_AddressEmptyOrLong ==
    pc = "returned" /\ fault = "none" =>
        FirstLongCandidate(cv_data.address, AddressCandidates(cleaned),
                           LongCandidates(AddressCandidates(cleaned)))

(***************************************************************************)
(* Documents for _extract_professional_summary: keyword lines followed by  *)
(* lines of more than 10 characters, of exactly 10 and of fewer, by four   *)
(* long lines, by five short lines, and by long lines five and six lines   *)
(* further on.                                                             *)
(***************************************************************************)
SummaryBank ==
    { <<"Summary">>,
      <<"piano", " ", "python">>,
      <<"Acme", " ", "Chess">>,
      <<"jean">>,
      <<"Summary", "\n", "jean", "\n", "sql", "\n", "jean", "\n", "sql", "\n", "java">>,
      <<"Profile", "\n", "python", " ", "piano">>,
      <<"Summary", "\n", "piano", " ", "python", "\n", "python", " ", "piano", "\n",
        "piano", " ", "java", " ", "sql", "\n", "java", " ", "piano", " ", "sql">>,
      <<"Summary", "\n", "jean", "\n", "sql", "\n", "jean", "\n", "sql", "\n",
        "piano", " ", "java", " ", "sql", "\n", "java", " ", "piano", " ", "sql">> }

InitSummary ==
    /\ text \in Documents(SummaryBank)
    /\ fault \in {"none", "professional_summary"}
    /\ possessive = TRUE
    /\ pc = "ready"
    /\ cleaned = <<>>
    /\ recleaned = <<>>
    /\ cv_data = NoData
    /\ ServiceIdle

SpecSummary == InitSummary /\ [][Next]_vars

\* The lines that hold a summary keyword.
KeywordLines(lines) ==
    {i \in DOMAIN lines : \E k \in DOMAIN lines[i] : Lower(lines[i][k]) \in summary_keywords}

\* Of the 5 lines after line i, those longer than 10 characters once trimmed.
LongAfter(lines, i) ==
    {j \in (i + 1)..Min({i + 5, Len(lines)}) : StrLen(Strip(lines[j])) > 10}

\* The first three indices of J.
FirstThree(J) == {j \in J : Cardinality({k \in J : k < j}) < 3}

\* The trimmed lines of the index set J joined by single spaces.
RECURSIVE JoinedAt(_, _)
JoinedAt(lines, J) ==
    IF J = {} THEN <<>>
    ELSE IF Cardinality(J) = 1 THEN Strip(lines[Min(J)])
    ELSE Strip(lines[Min(J)]) \o <<" ">> \o JoinedAt(lines, J \ {Min(J)})

\* The summary is built from the first line of `from`, empty when there is none.
SummaryBuiltFrom(summary, lines, from) ==
    summary = IF from = {} THEN <<>>
              ELSE JoinedAt(lines, FirstThree(LongAfter(lines, Min(from))))

(***************************************************************************)
(* C25 as stated: the summary is built from the first line that holds a    *)
(* summary keyword, joining with single spaces up to 3 lines longer than   *)
(* 10 characters among the 5 lines after it; it is empty when no line      *)
(* holds a keyword.                                                        *)
(***************************************************************************)
C25_SummaryFromFirstKeywordLine ==
    pc = "returned" /\ fault = "none" =>
        SummaryBuiltFrom(cv_data.professional_summary, LinesOfCleaned,
                         KeywordLines(LinesOfCleaned))

(***************************************************************************)
(* C25 amended: the summary is built from the first keyword line that has  *)
(* a line longer than 10 characters among the 5 lines after it, joining    *)
(* with single spaces up to 3 such lines; it is empty when no keyword line *)
(* has such a line.                                                        *)
(***************************************************************************)
C25_SummaryFromFirstFruitfulLine ==
    pc = "returned" /\ fault = "none" =>
        SummaryBuiltFrom(cv_data.professional_summary, LinesOfCleaned,
            {i \in KeywordLines(LinesOfCleaned) : LongAfter(LinesOfCleaned, i) # {}})

\* The first keyword line has five short lines after it; the summary comes
\* from the second keyword line.
C25_Witness ==
    /\ pc = "returned"
    /\ fault = "none"
    /\ KeywordLines(LinesOfCleaned) = {1, 7}
    /\ LongAfter(LinesOfCleaned, 1) = {}
    /\ cv_data.professional_summary = <<"python", " ", "piano">>

(***************************************************************************)
(* The other endpoints of main.py and FileHandler.cleanup_old_files.       *)
(***************************************************************************)
MaxUploadBytes == 10485760

\* The files a client can upload.
UploadFiles ==
    { [ filename |-> "jean.pdf", suffix |-> ".pdf", size |-> 2048,
        content |-> << <<"Jean", " ", "Dupont">> >> ],
      [ filename |-> "big.pdf", suffix |-> ".pdf", size |-> 10485761,
        content |-> << <<"Jean", " ", "Dupont">>, <<"Skills">> >> ],
      [ filename |-> "notes.txt", suffix |-> ".txt", size |-> 2048,
        content |-> << <<"jean">> >> ] }

\* main.py lines 103-105: f"cv_{timestamp}_{file.filename}" under uploads
UploadPaths ==
    { [ timestamp |-> "20250101_120000", filename |-> "jean.pdf",
        path |-> "uploads/cv_20250101_120000_jean.pdf" ],
      [ timestamp |-> "20250101_120001", filename |-> "jean.pdf",
        path |-> "uploads/cv_20250101_120001_jean.pdf" ] }

UploadPath(t, filename) ==
    (CHOOSE r \in UploadPaths : r.timestamp = t /\ r.filename = filename).path

\* An UploadFile: its content and how much of it has been read.
Stream(file) == [content |-> file.content, pos |-> 0]

\* await file.read(): what is left of the stream, which is then at its end.
ReadData(stream) == SubSeq(stream.content, stream.pos + 1, Len(stream.content))

AfterRead(stream) == [stream EXCEPT !.pos = Len(stream.content)]

\* file_handler.py lines 31-45: the second argument is taken as a directory.
\* It is made if it is not there, a file with a name of its own is opened in
\* it and what file.read() gives is written to that file.
save_uploaded_file(dir, stream, upload_dir, suffix) ==
    IF upload_dir \in DOMAIN dir /\ dir[upload_dir].kind = "file"
    THEN [raised |-> TRUE, dir |-> dir]
    ELSE [raised |-> FALSE,
          dir |-> (upload_dir :>
                      [ kind |-> "dir", suffix |-> suffix, parses |-> FALSE,
                        pages |-> <<>>,
                        age |-> IF upload_dir \in DOMAIN dir THEN dir[upload_dir].age ELSE 0,
                        inside |-> (IF upload_dir \in DOMAIN dir
                                    THEN dir[upload_dir].inside ELSE <<>>)
                                   \o <<ReadData(stream)>> ]) @@ dir]

\* main.py lines 85-123.  The content is read at line 98 for its length, so
\* save_uploaded_file is handed a stream that is at its end.
UploadCv(h) ==
    /\ handlers[h].pc = "idle"
    /\ \E file \in UploadFiles, t \in Timestamps :
           LET rec == [handlers[h] EXCEPT !.endpoint = "upload-cv",
                                          !.uploaded = ReadData(Stream(file))]
           IN  IF file.suffix # ".pdf" \/ file.size > MaxUploadBytes
               THEN /\ handlers' = [handlers EXCEPT ![h] = Respond(rec, 400)]
                    /\ uploads' = uploads
               ELSE IF save_uploaded_file(uploads, AfterRead(Stream(file)),
                                          UploadPath(t, file.filename), file.suffix).raised
               THEN /\ handlers' = [handlers EXCEPT ![h] = Respond(rec, 500)]
                    /\ uploads' = uploads
               ELSE /\ handlers' = [handlers EXCEPT ![h] =
                           Respond([rec EXCEPT !.path = UploadPath(t, file.filename)], 200)]
                    /\ uploads' = save_uploaded_file(uploads, AfterRead(Stream(file)),
                                      UploadPath(t, file.filename), file.suffix).dir
    /\ UNCHANGED <<text, fault, possessive, pc, cleaned, recleaned, cv_data, patterns, outputs, cleanup>>

\* The names a client can ask for.
DownloadNames == {OutputName(t) : t \in Timestamps}

\* main.py lines 229-248: the 404 of line 238 is caught at line 246.
DownloadResult(h) ==
    /\ handlers[h].pc = "idle"
    /\ \E name \in DownloadNames :
           handlers' = [handlers EXCEPT ![h] =
               Respond([handlers[h] EXCEPT !.endpoint = "download-result",
                                           !.output_path = name],
                       IF name \in DOMAIN outputs THEN 200
                       ELSE StatusRaised("download-result", 404))]
    /\ UNCHANGED <<text, fault, possessive, pc, cleaned, recleaned, cv_data, patterns, outputs, uploads, cleanup>>

\* file_handler.py line 237: delete_file (lines 54-75) is a coroutine function
\* and the call is not awaited, so its body never runs and the directory is
\* left as it was; the coroutine object it gives is true.
DeleteFileCall(dir, name) == [dir |-> dir, result |-> TRUE]

\* file_handler.py lines 232-236
IsOldFile(entry, max_age_hours) == entry.kind = "file" /\ entry.age > max_age_hours

\* file_handler.py lines 229-238 over the names still to visit
RECURSIVE CleanupFrom(_, _, _, _)
CleanupFrom(dir, names, max_age_hours, deleted_count) ==
    IF names = {} THEN [dir |-> dir, returned |-> deleted_count]
    ELSE LET item == CHOOSE n \in names : TRUE
         IN  IF IsOldFile(dir[item], max_age_hours)
             THEN CleanupFrom(DeleteFileCall(dir, item).dir, names \ {item}, max_age_hours,
                              IF DeleteFileCall(dir, item).result
                              THEN deleted_count + 1 ELSE deleted_count)
             ELSE CleanupFrom(dir, names \ {item}, max_age_hours, deleted_count)

MaxAges == {0, 24}

\* file_handler.py lines 211-245 on the uploads directory
cleanup_old_files ==
    /\ ~cleanup.ran
    /\ \E max_age_hours \in MaxAges :
           /\ cleanup' = [ran |-> TRUE, max_age_hours |-> max_age_hours,
                          returned |-> CleanupFrom(uploads, DOMAIN uploads, max_age_hours, 0).returned]
           /\ uploads' = CleanupFrom(uploads, DOMAIN uploads, max_age_hours, 0).dir
    /\ UNCHANGED <<text, fault, possessive, pc, cleaned, recleaned, cv_data, patterns, handlers, outputs>>

InitApi ==
    /\ text = <<>>
    /\ fault = "none"
    /\ possessive = TRUE
    /\ pc = "serving"
    /\ cleaned = <<>>
    /\ recleaned = <<>>
    /\ cv_data = NoData
    /\ ServiceIdle

NextApi ==
    \/ \E h \in Handlers :
           \/ Receive(h)
           \/ ObtainText(h)
           \/ CleanCall(h)
           \/ ExtractCall(h)
           \/ SaveResult(h)
           \/ UploadCv(h)
           \/ DownloadResult(h)
    \/ cleanup_old_files

SpecApi == InitApi /\ [][NextApi]_vars

\* The request of a finished handler named a file that does not exist.
NamedMissingFile(rec) ==
    /\ rec.pc = "done"
    /\ \/ rec.endpoint \in Endpoints /\ rec.path \notin DOMAIN uploads
       \/ rec.endpoint = "download-result" /\ rec.output_path \notin DOMAIN outputs

(***************************************************************************)
(* C26: a request to /process-cv, /process-cv-from-path or                 *)
(* /download-result that names a file that does not exist is answered      *)
(* with status 404.                                                        *)
(***************************************************************************)
C26_MissingFileIs404 ==
    \A h \in Handlers : NamedMissingFile(handlers[h]) => handlers[h].status = 404

\* The upload of handler h succeeded and the path of its response is that of
\* a regular file holding what was uploaded.
UploadIsStored(h) ==
    /\ handlers[h].path \in DOMAIN uploads
    /\ uploads[handlers[h].path].kind = "file"
    /\ uploads[handlers[h].path].pages = handlers[h].uploaded

\* Handler g was asked to process the path that the upload of h returned.
ProcessesUploadOf(g, h) ==
    /\ handlers[g].endpoint = "process-cv"
    /\ handlers[g].path = handlers[h].path
    /\ handlers[g].pc \in {"text", "cleaned", "extracted", "done"}

(***************************************************************************)
(* C27: after /upload-cv succeeds, the file_path of its response names a   *)
(* regular file whose content is the uploaded bytes, and /process-cv       *)
(* given that file_path gets the text of the uploaded document.            *)
(***************************************************************************)
C27_UploadedFileIsStored ==
    \A h \in Handlers :
        handlers[h].endpoint = "upload-cv" /\ handlers[h].status = 200 =>
            /\ UploadIsStored(h)
            /\ \A g \in Handlers :
                   ProcessesUploadOf(g, h) =>
                       handlers[g].text =
                           clean_extracted_text(Join(SelectSeq(handlers[h].uploaded, NonEmpty), "\n"))

\* The regular files of a directory older than max_age_hours.
OldFiles(dir, max_age_hours) ==
    {n \in DOMAIN dir : dir[n].kind = "file" /\ dir[n].age > max_age_hours}

\* A call on directory `before` left directory `after` and returned `count`.
RemovedOldFiles(before, after, max_age_hours, count) ==
    /\ DOMAIN after = DOMAIN before \ OldFiles(before, max_age_hours)
    /\ \A n \in DOMAIN after : after[n] = before[n]
    /\ count = Cardinality(DOMAIN before \ DOMAIN after)

(***************************************************************************)
(* C28: cleanup_old_files removes every regular file of the directory      *)
(* older than max_age_hours, leaves the other entries as they were and     *)
(* returns the number of files it removed.                                 *)
(***************************************************************************)
C28_CleanupRemovesOldFiles ==
    [][cleanup_old_files =>
          RemovedOldFiles(uploads, uploads', cleanup'.max_age_hours, cleanup'.returned)]_vars

\* Handler h is a processing request that has made the name to store under.
HasOutputName(h) ==
    handlers[h].endpoint \in Endpoints /\ handlers[h].output_path # <<>>

RawTextOf(h) == extract_with_pypdf2(uploads[handlers[h].path])

\* Handler h has had its text normalized by the extractor.
Normalized(h) ==
    /\ handlers[h].endpoint \in Endpoints
    /\ handlers[h].pc \in {"cleaned", "extracted", "done"}
    /\ handlers[h].text # <<>>

(***************************************************************************)
(* C30: the cleaner of the processor and the normalizer of the extractor   *)
(* give the same text for what PyPDF2 read, so on the text that            *)
(* extract_text_from_pdf returned the normalizer changes nothing and       *)
(* text_length is the length of that text.                                 *)
(***************************************************************************)
C30_NormalizerIsIdentity ==
    \A h \in Handlers :
        Normalized(h) =>
            /\ clean_extracted_text(RawTextOf(h)) = clean_text_improved(RawTextOf(h))
            /\ handlers[h].cleaned = handlers[h].text
            /\ handlers[h].cv_info # NoData =>
                   handlers[h].cv_info.extraction_metadata.text_length = StrLen(handlers[h].text)

\* The processor's cleaner changed what PyPDF2 read (a form feed, a double
\* space, a blank line), and the mapping was made from its result.
C30_Witness ==
    \E h \in Handlers :
        /\ handlers[h].pc = "extracted"
        /\ handlers[h].text # RawTextOf(h)
        /\ HasLexeme(RawTextOf(h), "\f")
        /\ handlers[h].cv_info.extraction_metadata.text_length = StrLen(handlers[h].text)
====
